---- MODULE Spec2Model ----
(***************************************************************************)
(* A model of modern_pylogging: the lazy logger proxies and their          *)
(* registry (logging_manager.py), the context-scoped extra data            *)
(* (contextvars_helpers.py) and the queue handler with its background      *)
(* listener (logging_handlers.py, picologging_handlers.py).                *)
(*                                                                         *)
(* Each subsystem has its own next-state relation and specification; the   *)
(* variables of the other subsystems stay unchanged under it.              *)
(***************************************************************************)
EXTENDS Integers, Sequences, FiniteSets, TLC

(***************************************************************************)
(* Bounds of the model.                                                    *)
(***************************************************************************)
\* Total number of get_logger / setup_proxy_loggers / real_logger calls.
MaxCalls == 4

\* The application threads that call into logging_manager.
Threads == {"T1", "T2"}
\* threading.Lock(): the holder, or Unlocked.
Unlocked == "unlocked"
\* Logger names passed to get_logger.
Names == {"a", "b"}
\* The functions passed to setup_proxy_loggers (logging.getLogger, a test's
\* dummy_factory, ...).  None of them is None.
Factories == {"f", "g"}

(***************************************************************************)
(* Values.  A logger handle is a record; a factory builds a new object on  *)
(* every call (tests/test_get_logger_lazy.py, dummy_factory), so a handle  *)
(* carries the serial number of the factory call that built it.            *)
(***************************************************************************)
NoFactory == "None"
NoLogger == [fac |-> "None", name |-> "", id |-> 0]
fallback_logger == [fac |-> "logging.getLogger", name |-> "modern_pylogging.fallback", id |-> 0]
\* The result of a call that ended by raising an exception.
Raised == [fac |-> "raised", name |-> "", id |-> 0]

VARIABLES
    \* ---- logging_manager.py ----
    proxies,            \* the LoggerProxy objects ever built, by object id
    _proxy_loggers,     \* the registry dict, in insertion order: <<[name, proxy]>>
    _logger_factory,    \* the global factory, NoFactory until setup
    fallback_errors,    \* number of fallback_logger.error(err_msg) calls
    factory_calls,      \* number of factory invocations so far (handle serial)
    handed,             \* history: <<[name, proxy]>> of get_logger returns
    served,             \* history: per proxy id, the handles real_logger returned
    ncalls,             \* number of calls started
    pc,                 \* per thread: the source line it is about to run
    op,                 \* per thread: the call it is in / was last in
    tname,              \* per thread: get_logger's name
    tproxy,             \* per thread: proxy / self
    tfn,                \* per thread: setup_proxy_loggers' real_get_logger_fn
    it_used,            \* per thread: dict size the values() iterator started with
    it_i,               \* per thread: position of the values() iterator
    ret,                \* per thread: the logger a real_logger call returned, or Raised
    \* ---- contextvars_helpers.py ----
    heap,               \* the dict objects alive, by object id: key -> value or reference
    held,               \* a reference a caller keeps to what get_log_extra() returned
    held_seen,          \* history: the content of that mapping when it was returned
    held_upd,           \* history: an update_log_extra replaced that mapping since
    ctx,                \* per task: what _log_extra_data is bound to in its context
    cpc,                \* per task: the source line it is about to run
    cur,                \* per task: current_extra
    upd,                \* per task: updates
    nupdates,           \* number of update_log_extra calls started
    parent,             \* history: the task whose context a task copied
    inherited,          \* history: the mapping a task inherited when it was spawned
    expect,             \* history: the inherited mapping with the task's own patches applied
    before,             \* history: the mapping a task read when its last update started
    patch,              \* history: the patch of a task's last update
    exc,                \* per task: its last call raised
    \* ---- logging_handlers.py, picologging_handlers.py ----
    constructed,        \* the queue handler and its listener exist
    stop_guard,         \* the listener's stop() returns at once when _thread is None
    maxsize,            \* handler.queue.maxsize: <= 0 means unbounded
    queue_class,        \* the class of handler.queue: "Queue" or "LifoQueue"
    sent,               \* per producer thread: the number of records it has emitted
    emitted_by,         \* history: per emitted record, its thread and its rank in that thread
    delivered,          \* per downstream handler: the records it has handled, in order
    sink_raised,        \* history: the record and the handler of every handle() that raised
    queue,              \* handler.queue: records and the sentinel, oldest first
    thread_attr,        \* listener._thread: "None" or "thread"
    monitor,            \* the consumer thread: not_started, waiting, handling, finished
    holding,            \* the record the consumer has dequeued and not yet handled
    dispatched,         \* the records handed to the downstream handlers, in order
    atexit_hooks,       \* the callbacks registered with atexit
    mpc,                \* the main thread: init, run, stopping, exit_stopping, exited
    stops,              \* history: who ran the listener's stop(), in order
    stop_errors,        \* history: number of stop() calls that raised
    emitted,            \* history: the records passed to handler.emit, in order
    stop_at,            \* history: Len(emitted) when stop was first requested, or -1
    pending_at_stop,    \* history: Len(queue) when stop was first requested
    \* ---- json_formatter.py: update_fields_with_nested ----
    mheap,              \* the dict objects of the caller of update_fields_with_nested
    source_data,        \* the destination dict, Unset before the caller has built it
    updated_fields,     \* the items of the last call's updated_fields, in iteration order
    mret,               \* what the last call returned: an object, or Unset
    mraised,            \* the last call raised
    mbefore,            \* history: the destination's content when the last call started
    ncalls_merge,       \* number of calls made
    \* ---- json_formatter.py: JsonFormatterMixin ----
    fpc,                \* "init" before the formatter is constructed, then "ready"
    capture_extra_fields, \* formatter.capture_extra_fields
    fheap,              \* the dict objects the formatting thread's context refers to
    fctx,               \* what _log_extra_data is bound to in the formatting thread
    nsets,              \* number of set_log_extra calls made
    outputs,            \* history: per format call its record and the output it returned
    \* ---- QueueHandlerContextVarsHappyPy312 and the listener's formatter ----
    xpc,                \* "init" until the listener's formatter is built
    xcapture,           \* the capture_extra_fields of the listener's formatter
    xheap,              \* the dict objects the producer's context and the records refer to
    xctx,               \* what _log_extra_data is bound to in the producer's context
    xqueue,             \* the records enqueued and not yet handled, oldest first
    xsent,              \* number of records the producer has logged
    xupdates,           \* number of set_log_extra / update_log_extra calls of the producer
    xout,               \* history: per record the listener formatted, what it returned
    \* ---- config_api.py ----
    cfg_pc,             \* "import" until the module is imported
    version,            \* sys.version_info
    is_picologging_installed,   \* import_checker.is_picologging_installed
    is_orjson_installed,        \* import_checker.is_orjson_installed
    cheap,              \* the dict objects of the module and of the instance
    default_handlers,   \* the module-level dict default_handlers
    default_picologging_handlers,   \* the module-level dict default_picologging_handlers
    defaults_at_import, \* history: the content of the two when the module was imported
    self,               \* the LoggingConfig instance last constructed, or NoConfig
    last_init,          \* history: the arguments of the last construction and its error
    last_prepared,      \* history: the last _prepare_config_dict call and its result
    configured,         \* the backend whose dictConfig was called last
    nconfigs,           \* number of constructions
    nprepares           \* number of _prepare_config_dict / configure calls

proxy_vars == <<proxies, _proxy_loggers, _logger_factory, fallback_errors, factory_calls,
                handed, served, ncalls, pc, op, tname, tproxy, tfn, it_used, it_i, ret>>

ctx_vars == <<heap, held, held_seen, held_upd, ctx, cpc, cur, upd, nupdates, parent, inherited,
              expect, before, patch, exc>>

queue_vars == <<constructed, stop_guard, maxsize, queue_class, sent, emitted_by, delivered,
                sink_raised, queue, thread_attr, monitor, holding, dispatched,
                atexit_hooks, mpc, stops, stop_errors, emitted, stop_at, pending_at_stop>>

merge_vars == <<mheap, source_data, updated_fields, mret, mraised, mbefore, ncalls_merge>>

fmt_vars == <<fpc, capture_extra_fields, fheap, fctx, nsets, outputs>>

xfer_vars == <<xpc, xcapture, xheap, xctx, xqueue, xsent, xupdates, xout>>

cfg_vars == <<cfg_pc, version, is_picologging_installed, is_orjson_installed, cheap,
              default_handlers, default_picologging_handlers, defaults_at_import, self,
              last_init, last_prepared, configured, nconfigs, nprepares>>

vars == <<proxy_vars, ctx_vars, queue_vars, merge_vars, fmt_vars, xfer_vars, cfg_vars>>

not_proxy_vars == <<ctx_vars, queue_vars, merge_vars, fmt_vars, xfer_vars, cfg_vars>>
not_ctx_vars == <<proxy_vars, queue_vars, merge_vars, fmt_vars, xfer_vars, cfg_vars>>
not_queue_vars == <<proxy_vars, ctx_vars, merge_vars, fmt_vars, xfer_vars, cfg_vars>>
not_merge_vars == <<proxy_vars, ctx_vars, queue_vars, fmt_vars, xfer_vars, cfg_vars>>
not_fmt_vars == <<proxy_vars, ctx_vars, queue_vars, merge_vars, xfer_vars, cfg_vars>>
not_xfer_vars == <<proxy_vars, ctx_vars, queue_vars, merge_vars, fmt_vars, cfg_vars>>
not_cfg_vars == <<proxy_vars, ctx_vars, queue_vars, merge_vars, fmt_vars, xfer_vars>>

(***************************************************************************)
(* logging_manager.py                                                      *)
(***************************************************************************)
\* LoggerProxy.__init__
LoggerProxy(name) ==
    [name |-> name, _real_logger |-> NoLogger, factory |-> NoFactory, lock |-> Unlocked,
     \* history: built before any setup; number of factory calls made for it;
     \* number of times its uses logged the "not set up yet" error
     pre_setup |-> (_logger_factory = NoFactory), ninv |-> 0, nerr |-> 0]

\* name in _proxy_loggers
InRegistry(name) == \E i \in 1..Len(_proxy_loggers) : _proxy_loggers[i].name = name

\* _proxy_loggers[name]
Lookup(name) ==
    LET i == CHOOSE i \in 1..Len(_proxy_loggers) : _proxy_loggers[i].name = name
    IN  _proxy_loggers[i].proxy

\* _proxy_loggers[name] = proxy: a new key goes last, an existing key keeps its place.
DictSet(d, name, proxy) ==
    IF \E i \in 1..Len(d) : d[i].name = name
    THEN [i \in 1..Len(d) |-> IF d[i].name = name THEN [name |-> name, proxy |-> proxy] ELSE d[i]]
    ELSE Append(d, [name |-> name, proxy |-> proxy])

\* The proxies application code holds: everything get_logger has returned.
Issued == {handed[i].proxy : i \in 1..Len(handed)}

Idle(t) == pc[t] = "idle"

\* A thread returns from its call; its locals die with the frame.
Return(t, value) ==
    /\ pc' = [pc EXCEPT ![t] = "idle"]
    /\ ret' = [ret EXCEPT ![t] = value]
    /\ tname' = [tname EXCEPT ![t] = ""]
    /\ tfn' = [tfn EXCEPT ![t] = NoFactory]
    /\ it_used' = [it_used EXCEPT ![t] = 0]
    /\ it_i' = [it_i EXCEPT ![t] = 0]

Goto(t, line) == pc' = [pc EXCEPT ![t] = line]

\* ---- get_logger(name) ----
get_logger_call(t) ==
    /\ Idle(t) /\ ncalls < MaxCalls
    /\ \E name \in Names : tname' = [tname EXCEPT ![t] = name]
    /\ ncalls' = ncalls + 1
    /\ op' = [op EXCEPT ![t] = "get_logger"]
    /\ ret' = [ret EXCEPT ![t] = NoLogger]
    /\ tproxy' = [tproxy EXCEPT ![t] = 0]
    /\ Goto(t, "get_logger:64")
    /\ UNCHANGED <<proxies, _proxy_loggers, _logger_factory, fallback_errors, factory_calls,
                   handed, served, tfn, it_used, it_i>>
    /\ UNCHANGED not_proxy_vars

\* A get_logger that skips the registry lookup and always builds a proxy.
get_logger_64_always_new(t) ==
    /\ pc[t] = "get_logger:64"
    /\ Goto(t, "get_logger:65")
    /\ UNCHANGED <<proxies, _proxy_loggers, _logger_factory, fallback_errors, factory_calls,
                   handed, served, ncalls, op, tname, tproxy, tfn, it_used, it_i, ret>>
    /\ UNCHANGED not_proxy_vars

\* line 64: if name not in _proxy_loggers
get_logger_64(t) ==
    /\ pc[t] = "get_logger:64"
    /\ Goto(t, IF ~InRegistry(tname[t]) THEN "get_logger:65" ELSE "get_logger:69")
    /\ UNCHANGED <<proxies, _proxy_loggers, _logger_factory, fallback_errors, factory_calls,
                   handed, served, ncalls, op, tname, tproxy, tfn, it_used, it_i, ret>>
    /\ UNCHANGED not_proxy_vars

\* lines 65-66: proxy = LoggerProxy(name); if _logger_factory
get_logger_65(t) ==
    /\ pc[t] = "get_logger:65"
    /\ proxies' = Append(proxies, LoggerProxy(tname[t]))
    /\ tproxy' = [tproxy EXCEPT ![t] = Len(proxies) + 1]
    /\ Goto(t, IF _logger_factory # NoFactory THEN "get_logger:67" ELSE "get_logger:68")
    /\ UNCHANGED <<_proxy_loggers, _logger_factory, fallback_errors, factory_calls,
                   handed, served, ncalls, op, tname, tfn, it_used, it_i, ret>>
    /\ UNCHANGED not_proxy_vars

\* line 67: proxy.factory = _logger_factory
get_logger_67(t) ==
    /\ pc[t] = "get_logger:67"
    /\ proxies' = [proxies EXCEPT ![tproxy[t]].factory = _logger_factory]
    /\ Goto(t, "get_logger:68")
    /\ UNCHANGED <<_proxy_loggers, _logger_factory, fallback_errors, factory_calls,
                   handed, served, ncalls, op, tname, tproxy, tfn, it_used, it_i, ret>>
    /\ UNCHANGED not_proxy_vars

\* line 68: _proxy_loggers[name] = proxy
get_logger_68(t) ==
    /\ pc[t] = "get_logger:68"
    /\ _proxy_loggers' = DictSet(_proxy_loggers, tname[t], tproxy[t])
    /\ Goto(t, "get_logger:69")
    /\ UNCHANGED <<proxies, _logger_factory, fallback_errors, factory_calls,
                   handed, served, ncalls, op, tname, tproxy, tfn, it_used, it_i, ret>>
    /\ UNCHANGED not_proxy_vars

\* line 69: return _proxy_loggers[name]
get_logger_69(t) ==
    /\ pc[t] = "get_logger:69"
    /\ handed' = Append(handed, [name |-> tname[t], proxy |-> Lookup(tname[t])])
    /\ tproxy' = [tproxy EXCEPT ![t] = Lookup(tname[t])]
    /\ Return(t, NoLogger)
    /\ UNCHANGED <<proxies, _proxy_loggers, _logger_factory, fallback_errors, factory_calls,
                   served, ncalls, op>>
    /\ UNCHANGED not_proxy_vars

\* ---- setup_proxy_loggers(real_get_logger_fn) ----
setup_proxy_loggers_call(t) ==
    /\ Idle(t) /\ ncalls < MaxCalls
    /\ \E fn \in Factories : tfn' = [tfn EXCEPT ![t] = fn]
    /\ ncalls' = ncalls + 1
    /\ op' = [op EXCEPT ![t] = "setup_proxy_loggers"]
    /\ ret' = [ret EXCEPT ![t] = NoLogger]
    /\ tproxy' = [tproxy EXCEPT ![t] = 0]
    /\ Goto(t, "setup:57")
    /\ UNCHANGED <<proxies, _proxy_loggers, _logger_factory, fallback_errors, factory_calls,
                   handed, served, tname, it_used, it_i>>
    /\ UNCHANGED not_proxy_vars

\* line 57: _logger_factory = real_get_logger_fn
setup_proxy_loggers_57(t) ==
    /\ pc[t] = "setup:57"
    /\ _logger_factory' = tfn[t]
    /\ Goto(t, "setup:59iter")
    /\ UNCHANGED <<proxies, _proxy_loggers, fallback_errors, factory_calls,
                   handed, served, ncalls, op, tname, tproxy, tfn, it_used, it_i, ret>>
    /\ UNCHANGED not_proxy_vars

\* line 59: iter(_proxy_loggers.values()) remembers the dict's size
setup_proxy_loggers_59_iter(t) ==
    /\ pc[t] = "setup:59iter"
    /\ it_used' = [it_used EXCEPT ![t] = Len(_proxy_loggers)]
    /\ it_i' = [it_i EXCEPT ![t] = 0]
    /\ Goto(t, "setup:59next")
    /\ UNCHANGED <<proxies, _proxy_loggers, _logger_factory, fallback_errors, factory_calls,
                   handed, served, ncalls, op, tname, tproxy, tfn, ret>>
    /\ UNCHANGED not_proxy_vars

\* line 59: next(iterator): RuntimeError when the dict changed size during the
\* iteration, the end of the loop when it is exhausted, else the next proxy.
setup_proxy_loggers_59_next(t) ==
    /\ pc[t] = "setup:59next"
    /\ IF Len(_proxy_loggers) # it_used[t]
       THEN /\ Return(t, Raised)
            /\ UNCHANGED tproxy
       ELSE IF it_i[t] >= Len(_proxy_loggers)
       THEN /\ Return(t, NoLogger)
            /\ UNCHANGED tproxy
       ELSE /\ tproxy' = [tproxy EXCEPT ![t] = _proxy_loggers[it_i[t] + 1].proxy]
            /\ it_i' = [it_i EXCEPT ![t] = it_i[t] + 1]
            /\ Goto(t, "setup:60")
            /\ UNCHANGED <<ret, tname, tfn, it_used>>
    /\ UNCHANGED <<proxies, _proxy_loggers, _logger_factory, fallback_errors, factory_calls,
                   handed, served, ncalls, op>>
    /\ UNCHANGED not_proxy_vars

\* A setup that resolves each proxy eagerly: it calls the factory while binding.
setup_proxy_loggers_60_resolves(t) ==
    /\ pc[t] = "setup:60"
    /\ factory_calls' = factory_calls + 1
    /\ proxies' = [proxies EXCEPT
           ![tproxy[t]].factory = tfn[t],
           ![tproxy[t]]._real_logger =
               [fac |-> tfn[t], name |-> proxies[tproxy[t]].name, id |-> factory_calls + 1],
           ![tproxy[t]].ninv = @ + 1]
    /\ Goto(t, "setup:59next")
    /\ UNCHANGED <<_proxy_loggers, _logger_factory, fallback_errors,
                   handed, served, ncalls, op, tname, tproxy, tfn, it_used, it_i, ret>>
    /\ UNCHANGED not_proxy_vars

\* line 60: proxy.factory = real_get_logger_fn
setup_proxy_loggers_60(t) ==
    /\ pc[t] = "setup:60"
    /\ proxies' = [proxies EXCEPT ![tproxy[t]].factory = tfn[t]]
    /\ Goto(t, "setup:59next")
    /\ UNCHANGED <<_proxy_loggers, _logger_factory, fallback_errors, factory_calls,
                   handed, served, ncalls, op, tname, tproxy, tfn, it_used, it_i, ret>>
    /\ UNCHANGED not_proxy_vars

\* ---- LoggerProxy.real_logger (also reached through __getattr__) ----
real_logger_call(t) ==
    /\ Idle(t) /\ ncalls < MaxCalls
    /\ \E p \in Issued : tproxy' = [tproxy EXCEPT ![t] = p]
    /\ ncalls' = ncalls + 1
    /\ op' = [op EXCEPT ![t] = "real_logger"]
    /\ ret' = [ret EXCEPT ![t] = NoLogger]
    /\ Goto(t, "real_logger:36")
    /\ UNCHANGED <<proxies, _proxy_loggers, _logger_factory, fallback_errors, factory_calls,
                   handed, served, tname, tfn, it_used, it_i>>
    /\ UNCHANGED not_proxy_vars

\* A real_logger without the short-circuit: every use goes on to resolve.
real_logger_36_always_resolves(t) ==
    /\ pc[t] = "real_logger:36"
    /\ Goto(t, "real_logger:37")
    /\ UNCHANGED <<proxies, _proxy_loggers, _logger_factory, fallback_errors, factory_calls,
                   handed, served, ncalls, op, tname, tproxy, tfn, it_used, it_i, ret>>
    /\ UNCHANGED not_proxy_vars

\* line 36: if self._real_logger is None
real_logger_36(t) ==
    /\ pc[t] = "real_logger:36"
    /\ Goto(t, IF proxies[tproxy[t]]._real_logger = NoLogger
               THEN "real_logger:37" ELSE "real_logger:43")
    /\ UNCHANGED <<proxies, _proxy_loggers, _logger_factory, fallback_errors, factory_calls,
                   handed, served, ncalls, op, tname, tproxy, tfn, it_used, it_i, ret>>
    /\ UNCHANGED not_proxy_vars

\* line 37: with self.lock (acquire)
real_logger_37(t) ==
    /\ pc[t] = "real_logger:37"
    /\ proxies[tproxy[t]].lock = Unlocked
    /\ proxies' = [proxies EXCEPT ![tproxy[t]].lock = t]
    /\ Goto(t, "real_logger:38")
    /\ UNCHANGED <<_proxy_loggers, _logger_factory, fallback_errors, factory_calls,
                   handed, served, ncalls, op, tname, tproxy, tfn, it_used, it_i, ret>>
    /\ UNCHANGED not_proxy_vars

\* A real_logger that caches the fallback logger as the resolved handle.
real_logger_38_caches_fallback(t) ==
    /\ pc[t] = "real_logger:38"
    /\ IF proxies[tproxy[t]]._real_logger = NoLogger /\ proxies[tproxy[t]].factory = NoFactory
       THEN /\ fallback_errors' = fallback_errors + 1
            /\ proxies' = [proxies EXCEPT ![tproxy[t]].lock = Unlocked,
                                          ![tproxy[t]].nerr = @ + 1,
                                          ![tproxy[t]]._real_logger = fallback_logger]
            /\ served' = [served EXCEPT ![tproxy[t]] = @ \cup {fallback_logger}]
            /\ Return(t, fallback_logger)
       ELSE /\ Goto(t, "real_logger:42")
            /\ UNCHANGED <<fallback_errors, proxies, served, ret, tname, tfn, it_used, it_i>>
    /\ UNCHANGED <<_proxy_loggers, _logger_factory, factory_calls, handed, ncalls, op, tproxy>>
    /\ UNCHANGED not_proxy_vars

\* lines 38-41: if self._real_logger is None and self.factory is None:
\* report through the fallback logger and return it (leaving the with block
\* releases the lock); otherwise go on to line 42.
real_logger_38(t) ==
    /\ pc[t] = "real_logger:38"
    /\ IF proxies[tproxy[t]]._real_logger = NoLogger /\ proxies[tproxy[t]].factory = NoFactory
       THEN /\ fallback_errors' = fallback_errors + 1
            /\ proxies' = [proxies EXCEPT ![tproxy[t]].lock = Unlocked,
                                          ![tproxy[t]].nerr = @ + 1]
            /\ served' = [served EXCEPT ![tproxy[t]] = @ \cup {fallback_logger}]
            /\ Return(t, fallback_logger)
       ELSE /\ Goto(t, "real_logger:42")
            /\ UNCHANGED <<fallback_errors, proxies, served, ret, tname, tfn, it_used, it_i>>
    /\ UNCHANGED <<_proxy_loggers, _logger_factory, factory_calls, handed, ncalls, op, tproxy>>
    /\ UNCHANGED not_proxy_vars

\* line 42: self._real_logger = self.factory(self.name), then the with block
\* ends and releases the lock.  Calling a factory that is None raises TypeError.
real_logger_42(t) ==
    /\ pc[t] = "real_logger:42"
    /\ IF proxies[tproxy[t]].factory = NoFactory
       THEN /\ proxies' = [proxies EXCEPT ![tproxy[t]].lock = Unlocked]
            /\ Return(t, Raised)
            /\ UNCHANGED factory_calls
       ELSE /\ factory_calls' = factory_calls + 1
            /\ proxies' = [proxies EXCEPT
                   ![tproxy[t]]._real_logger =
                       [fac |-> proxies[tproxy[t]].factory,
                        name |-> proxies[tproxy[t]].name,
                        id |-> factory_calls + 1],
                   ![tproxy[t]].ninv = @ + 1,
                   ![tproxy[t]].lock = Unlocked]
            /\ Goto(t, "real_logger:43")
            /\ UNCHANGED <<ret, tname, tfn, it_used, it_i>>
    /\ UNCHANGED <<_proxy_loggers, _logger_factory, fallback_errors, handed, served, ncalls,
                   op, tproxy>>
    /\ UNCHANGED not_proxy_vars

\* line 43: return self._real_logger
real_logger_43(t) ==
    /\ pc[t] = "real_logger:43"
    /\ served' = [served EXCEPT ![tproxy[t]] = @ \cup {proxies[tproxy[t]]._real_logger}]
    /\ Return(t, proxies[tproxy[t]]._real_logger)
    /\ UNCHANGED <<proxies, _proxy_loggers, _logger_factory, fallback_errors, factory_calls,
                   handed, ncalls, op, tproxy>>
    /\ UNCHANGED not_proxy_vars

\* One step of thread t.
ThreadStep(t) ==
    \/ get_logger_call(t)
    \/ get_logger_64(t)
    \/ get_logger_65(t)
    \/ get_logger_67(t)
    \/ get_logger_68(t)
    \/ get_logger_69(t)
    \/ setup_proxy_loggers_call(t)
    \/ setup_proxy_loggers_57(t)
    \/ setup_proxy_loggers_59_iter(t)
    \/ setup_proxy_loggers_59_next(t)
    \/ setup_proxy_loggers_60(t)
    \/ real_logger_call(t)
    \/ real_logger_36(t)
    \/ real_logger_37(t)
    \/ real_logger_38(t)
    \/ real_logger_42(t)
    \/ real_logger_43(t)

(***************************************************************************)
(* contextvars_helpers.py                                                  *)
(*                                                                         *)
(* Python dicts are objects: a context binds _log_extra_data to a          *)
(* reference, and a copied context holds the same references.  The heap    *)
(* maps object ids to dict contents; a value is a scalar or a reference to *)
(* a nested dict.  Objects nothing refers to are dropped, and a new object *)
(* gets the smallest free id.                                              *)
(***************************************************************************)
\* Total number of update_log_extra calls.
MaxUpdates == 3

\* The tasks (asyncio tasks, or threads run in a copied context).
Tasks == {"main", "child", "sibling"}
\* The ContextVar has no value in this context: get() raises LookupError.
Unset == 0
Scalar(n) == [k |-> "int", v |-> n]
Ref(o) == [k |-> "ref", v |-> o]
\* A nested mapping written as a literal.
Map(f) == [k |-> "map", v |-> f]
EmptyDict == << >>
\* The mappings passed to update_log_extra: the empty patch, two patches
\* with one key each, and one that collides with both and nests a mapping.
Patches ==
    { EmptyDict,
      "x" :> Scalar(1),
      "y" :> Scalar(2),
      [x |-> Scalar(2), y |-> Map("a" :> Scalar(1))] }

\* The id of the next object built.
NewId(h) ==
    CHOOSE i \in 1..(Cardinality(DOMAIN h) + 1) :
        i \notin DOMAIN h /\ \A j \in 1..(i - 1) : j \in DOMAIN h

\* The mapping an object holds, nested dicts included, as a value.
RECURSIVE Content(_, _)
Content(h, o) ==
    [key \in DOMAIN h[o] |->
        IF h[o][key].k = "ref" THEN Map(Content(h, h[o][key].v)) ELSE h[o][key]]

\* Fill object o with the literal lit, building a new object for every
\* nested mapping.
RECURSIVE Fill(_, _, _, _)
Fill(h, o, lit, ks) ==
    IF ks = {} THEN h
    ELSE LET key == CHOOSE x \in ks : TRUE
             val == lit[key]
         IN  IF val.k = "map"
             THEN LET n == NewId(h)
                      h1 == Fill(h @@ (n :> EmptyDict), n, val.v, DOMAIN val.v)
                  IN  Fill([h1 EXCEPT ![o] = (key :> Ref(n)) @@ @], o, lit, ks \ {key})
             ELSE Fill([h EXCEPT ![o] = (key :> val) @@ @], o, lit, ks \ {key})

\* A dict literal: a new object holding lit.
Build(h, lit) ==
    LET n == NewId(h)
    IN  [heap |-> Fill(h @@ (n :> EmptyDict), n, lit, DOMAIN lit), obj |-> n, raised |-> FALSE]

\* copy.deepcopy(extra): new objects all the way down.
deepcopy(h, o) == Build(h, Content(h, o))

\* The key union of mapping c and patch m in which m's values win.
Overlay(c, m) ==
    [key \in DOMAIN c \cup DOMAIN m |-> IF key \in DOMAIN m THEN m[key] ELSE c[key]]

\* A union that keeps the current value on a collision (updates | current_extra).
DictUnionKeepsCurrent(a, b) ==
    [key \in DOMAIN a \cup DOMAIN b |-> IF key \in DOMAIN a THEN a[key] ELSE b[key]]

\* a | b on dicts: the key union, b's values winning.
DictUnion(a, b) ==
    [key \in DOMAIN a \cup DOMAIN b |-> IF key \in DOMAIN b THEN b[key] ELSE a[key]]

\* The order in which the tasks' references are followed.
TaskOrder == <<"main", "child", "sibling">>

RECURSIVE SetToSeq(_)
SetToSeq(S) ==
    IF S = {} THEN << >>
    ELSE LET x == CHOOSE y \in S : TRUE IN <<x>> \o SetToSeq(S \ {x})

\* The objects o refers to.
RefsOf(h, o) ==
    LET ks == SetToSeq({key \in DOMAIN h[o] : h[o][key].k = "ref"})
    IN  [i \in 1..Len(ks) |-> h[o][ks[i]].v]

\* The objects reachable from todo, in the order they are first met.
RECURSIVE Visit(_, _, _)
Visit(h, order, todo) ==
    IF todo = << >> THEN order
    ELSE LET o == Head(todo)
         IN  IF o = Unset \/ \E i \in 1..Len(order) : order[i] = o
             THEN Visit(h, order, Tail(todo))
             ELSE Visit(h, Append(order, o), RefsOf(h, o) \o Tail(todo))

Num(order, o) ==
    IF o = Unset THEN Unset ELSE CHOOSE i \in 1..Len(order) : order[i] = o

\* Object ids carry no meaning: after every step the objects still referred
\* to by a context or a local are renumbered in the order they are reached,
\* and the others are dropped (garbage).
Install(new_heap, c1, cur1, upd1, held1) ==
    \E h1 \in {new_heap} :
    \E order \in {Visit(h1, << >>,
                        <<held1>>
                        \o [i \in 1..Len(TaskOrder) |-> c1[TaskOrder[i]]]
                        \o [i \in 1..Len(TaskOrder) |-> cur1[TaskOrder[i]]]
                        \o [i \in 1..Len(TaskOrder) |-> upd1[TaskOrder[i]]])} :
        /\ heap' = [i \in 1..Len(order) |->
                       [key \in DOMAIN h1[order[i]] |->
                           IF h1[order[i]][key].k = "ref"
                           THEN Ref(Num(order, h1[order[i]][key].v))
                           ELSE h1[order[i]][key]]]
        /\ ctx' = [t \in Tasks |-> Num(order, c1[t])]
        /\ cur' = [t \in Tasks |-> Num(order, cur1[t])]
        /\ upd' = [t \in Tasks |-> Num(order, upd1[t])]
        /\ held' = Num(order, held1)

\* get_log_extra(should_copy): the bound dict, a new empty dict when the
\* variable is unset (LookupError is caught), deep-copied on request.
get_log_extra(h, binding, should_copy) ==
    LET h1 == IF binding = Unset THEN h @@ (NewId(h) :> EmptyDict) ELSE h
        extra == IF binding = Unset THEN NewId(h) ELSE binding
    IN  IF should_copy THEN deepcopy(h1, extra)
        ELSE [heap |-> h1, obj |-> extra, raised |-> FALSE]

\* What get_log_extra() shows in task t's context.
ReadExtra(t) == IF ctx[t] = Unset THEN EmptyDict ELSE Content(heap, ctx[t])

\* A store into a module-level global instead of the context variable.
set_log_extra_global(c, t, o) == [u \in DOMAIN c |-> o]

\* set_log_extra(log_extra): _log_extra_data.set binds in the caller's context.
set_log_extra(c, t, o) == [c EXCEPT ![t] = o]

\* A task is started with a copy of the spawning task's context
\* (asyncio.create_task, contextvars.copy_context().run).
spawn(par, t) ==
    /\ cpc[par] = "idle" /\ cpc[t] = "unborn"
    /\ Install(heap, [ctx EXCEPT ![t] = ctx[par]], cur, upd, held)
    /\ cpc' = [cpc EXCEPT ![t] = "idle"]
    /\ parent' = [parent EXCEPT ![t] = par]
    /\ inherited' = [inherited EXCEPT ![t] = ReadExtra(par)]
    /\ before' = [before EXCEPT ![t] = ReadExtra(par)]
    /\ expect' = [expect EXCEPT ![t] = ReadExtra(par)]
    /\ UNCHANGED <<nupdates, patch, exc, held_seen, held_upd>>
    /\ UNCHANGED not_ctx_vars

\* update_log_extra(updates) is called with a dict the caller built, and
\* runs line 34: current_extra = get_log_extra(should_copy=True)
update_log_extra_34(t) ==
    /\ cpc[t] = "idle" /\ nupdates < MaxUpdates
    /\ nupdates' = nupdates + 1
    /\ before' = [before EXCEPT ![t] = ReadExtra(t)]
    /\ \E m \in Patches :
       \E b \in {Build(heap, m)} :
       \E r \in {get_log_extra(b.heap, ctx[t], TRUE)} :
               /\ patch' = [patch EXCEPT ![t] = m]
               /\ IF r.raised
                  THEN /\ exc' = [exc EXCEPT ![t] = TRUE]
                       /\ UNCHANGED cpc
                       /\ Install(heap, ctx, cur, upd, held)
                  ELSE /\ cpc' = [cpc EXCEPT ![t] = "update:35"]
                       /\ Install(r.heap, ctx, [cur EXCEPT ![t] = r.obj],
                                  [upd EXCEPT ![t] = b.obj], held)
                       /\ UNCHANGED exc
    /\ UNCHANGED <<parent, inherited, expect, held_seen, held_upd>>
    /\ UNCHANGED not_ctx_vars

\* An update that writes the patch into the bound mapping itself
\* (dict.update on the object get_log_extra() returns).
update_log_extra_35_in_place(t) ==
    /\ cpc[t] = "update:35"
    /\ IF ctx[t] = Unset
       THEN LET n == NewId(heap)
                h1 == heap @@ (n :> DictUnion(heap[cur[t]], heap[upd[t]]))
            IN  Install(h1, set_log_extra(ctx, t, n), [cur EXCEPT ![t] = Unset],
                        [upd EXCEPT ![t] = Unset], held)
       ELSE Install([heap EXCEPT ![ctx[t]] = DictUnion(heap[ctx[t]], heap[upd[t]])],
                    ctx, [cur EXCEPT ![t] = Unset], [upd EXCEPT ![t] = Unset], held)
    /\ held_upd' = (held_upd \/ (held # Unset /\ ctx[t] = held))
    /\ expect' = [expect EXCEPT ![t] = Overlay(expect[t], patch[t])]
    /\ cpc' = [cpc EXCEPT ![t] = "idle"]
    /\ UNCHANGED <<nupdates, parent, inherited, before, patch, exc, held_seen>>
    /\ UNCHANGED not_ctx_vars

\* line 35: set_log_extra(current_extra | updates); the call returns.
update_log_extra_35(t) ==
    /\ cpc[t] = "update:35"
    /\ LET n == NewId(heap)
           h1 == heap @@ (n :> DictUnion(heap[cur[t]], heap[upd[t]]))
       IN  Install(h1, set_log_extra(ctx, t, n), [cur EXCEPT ![t] = Unset],
                   [upd EXCEPT ![t] = Unset], held)
    /\ held_upd' = (held_upd \/ (held # Unset /\ ctx[t] = held))
    /\ expect' = [expect EXCEPT ![t] = Overlay(expect[t], patch[t])]
    /\ cpc' = [cpc EXCEPT ![t] = "idle"]
    /\ UNCHANGED <<nupdates, parent, inherited, before, patch, exc, held_seen>>
    /\ UNCHANGED not_ctx_vars

\* A caller keeps what get_log_extra() returns (lines 17-27, should_copy
\* False): the mapping bound in its context, itself.
get_log_extra_call(t) ==
    /\ cpc[t] = "idle" /\ ctx[t] # Unset
    /\ \E r \in {get_log_extra(heap, ctx[t], FALSE)} :
           /\ Install(r.heap, ctx, cur, upd, r.obj)
           /\ held_seen' = Content(r.heap, r.obj)
    /\ held_upd' = FALSE
    /\ UNCHANGED <<cpc, nupdates, parent, inherited, expect, before, patch, exc>>
    /\ UNCHANGED not_ctx_vars

CtxInit ==
    /\ heap = << >>
    /\ held = Unset
    /\ held_seen = EmptyDict
    /\ held_upd = FALSE
    /\ ctx = [t \in Tasks |-> Unset]
    /\ cpc = [t \in Tasks |-> IF t = "main" THEN "idle" ELSE "unborn"]
    /\ cur = [t \in Tasks |-> Unset]
    /\ upd = [t \in Tasks |-> Unset]
    /\ nupdates = 0
    /\ parent = [t \in Tasks |-> "none"]
    /\ inherited = [t \in Tasks |-> EmptyDict]
    /\ expect = [t \in Tasks |-> EmptyDict]
    /\ before = [t \in Tasks |-> EmptyDict]
    /\ patch = [t \in Tasks |-> EmptyDict]
    /\ exc = [t \in Tasks |-> FALSE]

\* Tasks run concurrently; every step of a task may interleave with the others.
CtxNext ==
    \/ \E par, t \in Tasks : spawn(par, t)
    \/ \E t \in Tasks : update_log_extra_34(t)
    \/ \E t \in Tasks : update_log_extra_35(t)
    \/ \E t \in Tasks : get_log_extra_call(t)

(***************************************************************************)
(* logging_handlers.py and picologging_handlers.py: the queue handler and  *)
(* its listener.  The handler's constructor builds an unbounded queue and  *)
(* a listener, starts the listener's thread and registers the listener's   *)
(* stop with atexit.  dequeue, handle, _monitor and stop are inherited     *)
(* from the backend's QueueListener (logging.handlers / picologging).      *)
(***************************************************************************)
\* Number of records the producers emit.
MaxRecords == 3

\* QueueListener._sentinel = None
Sentinel == 0

\* The threads that log through the queue handler.
Producers == {"P1", "P2"}
\* listener.handlers, in the order they were passed.
Handlers == <<"h1", "h2">>

\* Queue.put_nowait(x): queue.Full when a bounded queue is full.
put_nowait(q, x) ==
    IF maxsize > 0 /\ Len(q) >= maxsize
    THEN [queue |-> q, full |-> TRUE]
    ELSE [queue |-> Append(q, x), full |-> FALSE]

\* LoggingQueueListener.__init__: super().__init__(queue, *handlers);
\* self.start(); atexit.register(self.stop)
LoggingQueueListener_init ==
    /\ \E g \in BOOLEAN : stop_guard' = g
    /\ thread_attr' = "thread"
    /\ monitor' = "waiting"
    /\ atexit_hooks' = atexit_hooks \cup {"listener.stop"}

\* The handler built over a queue that holds one entry only.
QueueListenerHandler_init_bounded ==
    /\ mpc = "init"
    /\ constructed' = TRUE
    /\ maxsize' = 1
    /\ queue_class' = "Queue"
    /\ queue' = << >>
    /\ LoggingQueueListener_init
    /\ mpc' = "run"
    /\ UNCHANGED <<holding, dispatched, stops, stop_errors, emitted, stop_at, pending_at_stop,
                   sent, emitted_by, delivered, sink_raised>>
    /\ UNCHANGED not_queue_vars

\* The handler built over a last-in first-out queue.
QueueListenerHandler_init_lifo ==
    /\ mpc = "init"
    /\ constructed' = TRUE
    /\ maxsize' = -1
    /\ queue_class' = "LifoQueue"
    /\ queue' = << >>
    /\ LoggingQueueListener_init
    /\ mpc' = "run"
    /\ UNCHANGED <<holding, dispatched, stops, stop_errors, emitted, stop_at, pending_at_stop,
                   sent, emitted_by, delivered, sink_raised>>
    /\ UNCHANGED not_queue_vars

\* QueueListenerHandler.__init__: super().__init__(Queue(-1)), then the
\* listener is built over self.queue.
QueueListenerHandler_init ==
    /\ mpc = "init"
    /\ constructed' = TRUE
    /\ maxsize' = -1
    /\ queue_class' = "Queue"
    /\ queue' = << >>
    /\ LoggingQueueListener_init
    /\ mpc' = "run"
    /\ UNCHANGED <<holding, dispatched, stops, stop_errors, emitted, stop_at, pending_at_stop,
                   sent, emitted_by, delivered, sink_raised>>
    /\ UNCHANGED not_queue_vars

\* QueueHandler.emit(record) from any thread: enqueue(prepare(record)) with
\* put_nowait; an exception goes to handleError and the record is lost.
emit(p) ==
    /\ constructed /\ mpc # "exited"
    /\ Len(emitted) < MaxRecords
    /\ emitted' = Append(emitted, Len(emitted) + 1)
    /\ sent' = [sent EXCEPT ![p] = @ + 1]
    /\ emitted_by' = Append(emitted_by, [thread |-> p, rank |-> sent[p] + 1])
    /\ queue' = put_nowait(queue, Len(emitted) + 1).queue
    /\ UNCHANGED <<constructed, stop_guard, maxsize, queue_class, delivered, sink_raised,
                   thread_attr, monitor, holding, dispatched,
                   atexit_hooks, mpc, stops, stop_errors, stop_at, pending_at_stop>>
    /\ UNCHANGED not_queue_vars

\* Queue.get(): the oldest entry of a Queue, the newest of a LifoQueue.
get(q) ==
    IF queue_class = "Queue"
    THEN [item |-> Head(q), queue |-> Tail(q)]
    ELSE [item |-> q[Len(q)], queue |-> SubSeq(q, 1, Len(q) - 1)]

\* _monitor: record = self.dequeue(True); the sentinel ends the thread.
monitor_dequeue ==
    /\ monitor = "waiting"
    /\ queue # << >>
    /\ queue' = get(queue).queue
    /\ IF get(queue).item = Sentinel
       THEN monitor' = "finished" /\ UNCHANGED holding
       ELSE monitor' = "handling" /\ holding' = get(queue).item
    /\ UNCHANGED <<constructed, stop_guard, maxsize, queue_class, sent, emitted_by, delivered,
                   sink_raised, thread_attr, dispatched, atexit_hooks, mpc, stops,
                   stop_errors, emitted, stop_at, pending_at_stop>>
    /\ UNCHANGED not_queue_vars

\* _monitor: self.handle(record) offers the record to the handlers in turn.
\* raising is the rank of the first handler whose handle(record) raises, 0
\* when none does: handle and _monitor catch nothing but queue.Empty, so the
\* exception skips the handlers that follow and ends the thread.
monitor_handle ==
    /\ monitor = "handling"
    /\ dispatched' = Append(dispatched, holding)
    /\ \E raising \in 0..Len(Handlers) :
           /\ delivered' = [h \in DOMAIN delivered |->
                  IF \E i \in 1..Len(Handlers) :
                         Handlers[i] = h /\ (raising = 0 \/ i < raising)
                  THEN Append(delivered[h], holding) ELSE delivered[h]]
           /\ IF raising = 0
              THEN monitor' = "waiting" /\ UNCHANGED sink_raised
              ELSE /\ monitor' = "crashed"
                   /\ sink_raised' = Append(sink_raised,
                          [record |-> holding, handler |-> Handlers[raising]])
    /\ holding' = Sentinel
    /\ UNCHANGED <<constructed, stop_guard, maxsize, queue_class, sent, emitted_by, queue,
                   thread_attr, atexit_hooks, mpc, stops,
                   stop_errors, emitted, stop_at, pending_at_stop>>
    /\ UNCHANGED not_queue_vars

\* listener.stop() up to the join: enqueue_sentinel(), then self._thread.join().
\* With _thread None the guarded stop returns at once and the unguarded one
\* raises AttributeError after it has enqueued the sentinel.  blocked is the
\* caller's state while it waits in join, resumed its state when stop is over.
stop_begin(who, blocked, resumed) ==
    /\ stops' = Append(stops, who)
    /\ IF thread_attr = "None" /\ stop_guard
       THEN /\ mpc' = resumed
            /\ UNCHANGED <<queue, stop_errors, stop_at, pending_at_stop>>
       ELSE LET put == put_nowait(queue, Sentinel)
            IN  /\ queue' = put.queue
                /\ stop_at' = IF stop_at = -1 THEN Len(emitted) ELSE stop_at
                /\ pending_at_stop' = IF stop_at = -1 THEN Len(queue) ELSE pending_at_stop
                /\ IF put.full \/ thread_attr = "None"
                   THEN mpc' = resumed /\ stop_errors' = stop_errors + 1
                   ELSE mpc' = blocked /\ UNCHANGED stop_errors
    /\ UNCHANGED <<constructed, stop_guard, maxsize, queue_class, sent, emitted_by, delivered,
                   sink_raised, thread_attr, monitor, holding, dispatched, emitted>>
    /\ UNCHANGED not_queue_vars

\* The application stops the listener itself: handler.listener.stop().
explicit_stop ==
    /\ mpc = "run" /\ stops = << >>
    /\ stop_begin("explicit", "stopping", "run")
    /\ UNCHANGED atexit_hooks

\* tests/helpers_for_tests.py: atexit.unregister(listener.stop); listener.stop()
cleanup_logging_impl ==
    /\ mpc = "run" /\ stops = << >>
    /\ atexit_hooks' = atexit_hooks \ {"listener.stop"}
    /\ stop_begin("explicit", "stopping", "run")

\* stop(): self._thread.join() returns when the thread is over; self._thread = None
stop_join ==
    /\ mpc \in {"stopping", "exit_stopping"}
    /\ monitor \in {"finished", "crashed"}
    /\ thread_attr' = "None"
    /\ mpc' = IF mpc = "stopping" THEN "run" ELSE "exited"
    /\ UNCHANGED <<constructed, stop_guard, maxsize, queue_class, sent, emitted_by, delivered,
                   sink_raised, queue, monitor, holding, dispatched, atexit_hooks,
                   stops, stop_errors, emitted, stop_at, pending_at_stop>>
    /\ UNCHANGED not_queue_vars

\* The interpreter exits: atexit runs the callbacks still registered.
process_exit ==
    /\ mpc = "run"
    /\ IF "listener.stop" \in atexit_hooks
       THEN stop_begin("atexit", "exit_stopping", "exited")
       ELSE /\ mpc' = "exited"
            /\ UNCHANGED <<constructed, stop_guard, maxsize, queue_class, sent, emitted_by,
                           delivered, sink_raised, queue, thread_attr, monitor, holding,
                           dispatched, stops, stop_errors, emitted, stop_at, pending_at_stop>>
            /\ UNCHANGED not_queue_vars
    /\ UNCHANGED atexit_hooks

QueueInit ==
    /\ constructed = FALSE
    /\ maxsize = 0
    /\ queue_class = "Queue"
    /\ sent = [p \in Producers |-> 0]
    /\ emitted_by = << >>
    /\ delivered = [h \in {Handlers[i] : i \in 1..Len(Handlers)} |-> << >>]
    /\ sink_raised = << >>
    /\ stop_guard = FALSE
    /\ queue = << >>
    /\ thread_attr = "None"
    /\ monitor = "not_started"
    /\ holding = Sentinel
    /\ dispatched = << >>
    /\ atexit_hooks = {}
    /\ mpc = "init"
    /\ stops = << >>
    /\ stop_errors = 0
    /\ emitted = << >>
    /\ stop_at = -1
    /\ pending_at_stop = 0

QueueNext ==
    \/ QueueListenerHandler_init
    \/ \E p \in Producers : emit(p)
    \/ monitor_dequeue
    \/ monitor_handle
    \/ explicit_stop
    \/ cleanup_logging_impl
    \/ stop_join
    \/ process_exit

(***************************************************************************)
(* json_formatter.py: update_fields_with_nested(source_data,               *)
(* updated_fields) writes every item of updated_fields into source_data,   *)
(* a key with dots naming a path of nested dicts.  Dicts are objects of a  *)
(* heap, and a nested dict is held by reference.                           *)
(***************************************************************************)
\* Number of calls of update_fields_with_nested on one destination.
MaxMerges == 2

\* field_name.split('.') on the keys in use.
split(field_name) ==
    CASE field_name = "a.b" -> <<"a", "b">>
      [] field_name = "a.b.c" -> <<"a", "b", "c">>
      [] field_name = "p.x" -> <<"p", "x">>
      [] field_name = "p.y" -> <<"p", "y">>
      [] field_name = "p.x.z" -> <<"p", "x", "z">>
      [] field_name = "nested.id" -> <<"nested", "id">>
      [] field_name = "params.additional" -> <<"params", "additional">>
      [] field_name = "params.logger_name" -> <<"params", "logger_name">>
      [] field_name = "message.x" -> <<"message", "x">>
      [] OTHER -> <<field_name>>

\* The destinations the callers build.
Destinations ==
    { EmptyDict,
      "a" :> Scalar(1),
      "p" :> Map("x" :> Scalar(1)),
      [a |-> Map("b" :> Scalar(1)), p |-> Map("x" :> Map("z" :> Scalar(1)))] }

\* The dicts passed as updated_fields, as the sequence of their items.
Updates ==
    { <<[key |-> "a.b", value |-> Scalar(2)]>>,
      <<[key |-> "a.b.c", value |-> Scalar(3)]>>,
      <<[key |-> "a", value |-> Scalar(4)]>>,
      <<[key |-> "p.x", value |-> Scalar(1)]>>,
      <<[key |-> "p.y", value |-> Scalar(2)]>>,
      <<[key |-> "p.x.z", value |-> Scalar(5)]>>,
      <<[key |-> "p", value |-> Map("y" :> Scalar(6))]>>,
      <<[key |-> "a", value |-> Scalar(1)], [key |-> "a.b", value |-> Scalar(2)]>>,
      <<[key |-> "p.y", value |-> Scalar(2)], [key |-> "a.b.c", value |-> Scalar(3)]>> }

\* The dict literal whose items are its.
DictOf(its) ==
    [key \in {its[i].key : i \in 1..Len(its)} |->
        its[CHOOSE i \in 1..Len(its) :
                its[i].key = key /\ \A j \in (i + 1)..Len(its) : its[j].key # key].value]

\* A setdefault that binds a new dict even when the key is bound (here[key] = {}).
setdefault_always_new(h, here, key) ==
    LET n == NewId(h)
    IN  [heap |-> [h EXCEPT ![here] = (key :> Ref(n)) @@ @] @@ (n :> EmptyDict),
         value |-> Ref(n)]

\* here.setdefault(key, {}): the value bound to key; a new empty dict is
\* bound to key first when here has no such key.
setdefault(h, here, key) ==
    IF key \in DOMAIN h[here]
    THEN [heap |-> h, value |-> h[here][key]]
    ELSE LET n == NewId(h)
         IN  [heap |-> [h EXCEPT ![here] = (key :> Ref(n)) @@ @] @@ (n :> EmptyDict),
              value |-> Ref(n)]

\* Lines 166-168 for one item: walk keys[:-1] with setdefault, then
\* here[keys[-1]] = field_value.  When setdefault returns a value that is
\* no dict, the next setdefault or the item assignment raises.
RECURSIVE assign_path(_, _, _, _)
assign_path(h, here, keys, field_value) ==
    IF Len(keys) = 1
    THEN [heap |-> [h EXCEPT ![here] = (keys[1] :> field_value) @@ @], raised |-> FALSE]
    ELSE LET sd == setdefault(h, here, Head(keys))
         IN  IF sd.value.k = "ref"
             THEN assign_path(sd.heap, sd.value.v, Tail(keys), field_value)
             ELSE [heap |-> sd.heap, raised |-> TRUE]

\* update_fields_with_nested(source_data, updated_fields): the items in
\* iteration order; an exception ends the loop and leaves what was written.
RECURSIVE update_fields_with_nested(_, _, _)
update_fields_with_nested(h, dest, its) ==
    IF its = << >> THEN [heap |-> h, obj |-> dest, raised |-> FALSE]
    ELSE LET r == assign_path(h, dest, split(Head(its).key), Head(its).value)
         IN  IF r.raised THEN [heap |-> r.heap, obj |-> Unset, raised |-> TRUE]
             ELSE update_fields_with_nested(r.heap, dest, Tail(its))

\* The items of the dict object o, in the order of the keys ks.
ItemsOf(h, o, ks) == [i \in 1..Len(ks) |-> [key |-> ks[i], value |-> h[o][ks[i]]]]

\* The heap with only the objects reachable from roots, renumbered in the
\* order they are reached.
Collect(h, roots) ==
    LET order == Visit(h, << >>, roots)
    IN  [heap |-> [i \in 1..Len(order) |->
                      [key \in DOMAIN h[order[i]] |->
                          IF h[order[i]][key].k = "ref"
                          THEN Ref(Num(order, h[order[i]][key].v))
                          ELSE h[order[i]][key]]],
         order |-> order]

\* The caller builds the destination dict.
new_source_data ==
    /\ source_data = Unset
    /\ \E lit \in Destinations :
       \E b \in {Build(<< >>, lit)} :
           /\ mheap' = b.heap
           /\ source_data' = b.obj
           /\ mbefore' = lit
    /\ UNCHANGED <<updated_fields, mret, mraised, ncalls_merge>>
    /\ UNCHANGED not_merge_vars

\* A call update_fields_with_nested(source_data, updated_fields) with a dict
\* the caller built; the caller drops updated_fields afterwards.
update_fields_with_nested_call ==
    /\ source_data # Unset /\ ncalls_merge < MaxMerges
    /\ ncalls_merge' = ncalls_merge + 1
    /\ mbefore' = Content(mheap, source_data)
    /\ \E its \in Updates :
       \E b \in {Build(mheap, DictOf(its))} :
       \E r \in {update_fields_with_nested(b.heap, source_data,
                    ItemsOf(b.heap, b.obj, [i \in 1..Len(its) |-> its[i].key]))} :
       \E c \in {Collect(r.heap, <<source_data, r.obj>>)} :
           /\ updated_fields' = its
           /\ mheap' = c.heap
           /\ source_data' = Num(c.order, source_data)
           /\ mret' = Num(c.order, r.obj)
           /\ mraised' = r.raised
    /\ UNCHANGED not_merge_vars

MergeInit ==
    /\ mheap = << >>
    /\ source_data = Unset
    /\ updated_fields = << >>
    /\ mret = Unset
    /\ mraised = FALSE
    /\ mbefore = EmptyDict
    /\ ncalls_merge = 0

MergeNext ==
    \/ new_source_data
    \/ update_fields_with_nested_call

(***************************************************************************)
(* json_formatter.py: JsonFormatterMixin.format builds the output mapping  *)
(* from the record's built-in fields, the static defaults, the context     *)
(* extra (or the extra bound on the record) and, when                      *)
(* capture_extra_fields is set, the record's other attributes.  A value    *)
(* Scalar(n) tells its source by n: 1x built-in, 2x static default, 3x     *)
(* context, 4x bound on the record, 5x per-call extra, 6x other record     *)
(* attributes.                                                             *)
(***************************************************************************)
\* Number of records formatted by one formatter.
MaxFormats == 2
\* Number of set_log_extra calls in the formatting thread.
MaxCtxSets == 1

RESERVED_ATTRS ==
    { "args", "asctime", "created", "exc_info", "filename", "funcName", "levelname",
      "levelno", "lineno", "message", "module", "msecs", "msg", "name", "pathname",
      "process", "processName", "relativeCreated", "stack_info", "thread", "threadName",
      "taskName", "binded_ctx_extra" }

\* get_logging_defaults(): the cached static defaults, in the dict's order.
get_logging_defaults ==
    << [key |-> "env", value |-> Scalar(21)],
       [key |-> "system", value |-> Scalar(22)],
       [key |-> "inst", value |-> Scalar(23)] >>

\* key.startswith('_') on the keys in use.
startswith_underscore(key) == key \in {"_private"}

\* The mappings given to set_log_extra in the formatting thread.
CtxExtras ==
    { EmptyDict,
      "x" :> Scalar(31),
      [env |-> Scalar(32), message |-> Scalar(33)],
      "nested" :> Map("a" :> Scalar(34)),
      "params" :> Map("q" :> Scalar(35)) }

\* The mappings a queue handler bound on the record (binded_ctx_extra).
NoBound == [k |-> "none", v |-> 0]
BoundExtras == { NoBound, Map("b" :> Scalar(41)), Map("x" :> Scalar(42)) }

\* The extra={...} of a log call, as the sequence of its items.
RecordExtras ==
    { << >>,
      <<[key |-> "simple", value |-> Scalar(51)]>>,
      <<[key |-> "nested.id", value |-> Scalar(52)]>>,
      <<[key |-> "params.additional", value |-> Scalar(53)]>>,
      <<[key |-> "env", value |-> Scalar(54)]>>,
      <<[key |-> "message", value |-> Scalar(55)]>>,
      <<[key |-> "_private", value |-> Scalar(56)]>>,
      <<[key |-> "x", value |-> Scalar(57)]>>,
      <<[key |-> "message.x", value |-> Scalar(58)]>> }

\* The log calls: every extra on a record without bound fields, the bound
\* fields with and without an extra, and a call with exc_info.
LogCalls ==
    { [extra |-> e, bound |-> NoBound, exc_info |-> FALSE] : e \in RecordExtras }
    \cup { [extra |-> << >>, bound |-> b, exc_info |-> FALSE] : b \in BoundExtras }
    \cup { [extra |-> <<[key |-> "simple", value |-> Scalar(51)]>>,
            bound |-> Map("b" :> Scalar(41)), exc_info |-> FALSE],
           [extra |-> <<[key |-> "_private", value |-> Scalar(56)]>>,
            bound |-> Map("b" :> Scalar(41)), exc_info |-> FALSE],
           [extra |-> << >>, bound |-> NoBound, exc_info |-> TRUE] }

\* record.__dict__.items(): the attributes LogRecord sets, the items of
\* extra, then binded_ctx_extra when a queue handler bound one (bound is
\* Unset or the dict object).
LogRecord(extra, bound) ==
    << [key |-> "name", value |-> Scalar(15)],
       [key |-> "levelname", value |-> Scalar(12)],
       [key |-> "msg", value |-> Scalar(13)],
       [key |-> "exc_text", value |-> Scalar(60)] >>
    \o extra
    \o (IF bound = Unset THEN << >> ELSE <<[key |-> "binded_ctx_extra", value |-> Ref(bound)]>>)

\* record.<attr>
getattr(record, attr) ==
    record[CHOOSE i \in 1..Len(record) : record[i].key = attr].value

hasattr(record, attr) == \E i \in 1..Len(record) : record[i].key = attr

\* A capture pass that keeps the keys that start with '_'.
grab_record_extra_fields_keeps_private(record, reserved) ==
    SelectSeq(record, LAMBDA it : it.key \notin reserved)

\* grab_record_extra_fields(record, reserved): the items of record.__dict__
\* whose key is neither reserved nor starts with '_'.
grab_record_extra_fields(record, reserved) ==
    SelectSeq(record, LAMBDA it : it.key \notin reserved /\ ~startswith_underscore(it.key))

\* A _prepare_log_extra that prefers the extra bound on the record.
_prepare_log_extra_bound_first(h, binding, record) ==
    IF hasattr(record, "binded_ctx_extra")
    THEN [heap |-> h, obj |-> getattr(record, "binded_ctx_extra").v, raised |-> FALSE]
    ELSE get_log_extra(h, binding, FALSE)

\* _prepare_log_extra(record): the context extra when it is not empty, else
\* the record's binded_ctx_extra when it has one, else a new empty dict.
_prepare_log_extra(h, binding, record) ==
    LET extra == get_log_extra(h, binding, FALSE)
    IN  IF extra.heap[extra.obj] # EmptyDict THEN extra
        ELSE IF hasattr(record, "binded_ctx_extra")
             THEN [heap |-> extra.heap, obj |-> getattr(record, "binded_ctx_extra").v,
                   raised |-> FALSE]
             ELSE Build(extra.heap, EmptyDict)

\* Lines 99-114: the built-in fields of the output, with the error object
\* when the record has exc_info.
BuiltinFields(record, exc_info) ==
    [timestamp |-> Scalar(11),
     level |-> getattr(record, "levelname"),
     message |-> getattr(record, "msg"),
     params |-> Map([call_filepath |-> Scalar(14), logger_name |-> getattr(record, "name")])]
    @@ (IF exc_info
        THEN "error" :> Map([code |-> Scalar(16), message |-> Scalar(17),
                             stack |-> Scalar(18), params |-> Map(EmptyDict)])
        ELSE << >>)

\* The items of dict object o; its keys name disjoint paths, so the order
\* of the iteration does not change what a merge leaves.
items(h, o) == ItemsOf(h, o, SetToSeq(DOMAIN h[o]))

\* The capture pass of lines 119-121.
CapturePass(h, log_record, record, capture) ==
    IF capture
    THEN update_fields_with_nested(h, log_record,
             grab_record_extra_fields(record,
                 RESERVED_ATTRS \cup {get_logging_defaults[i].key :
                                         i \in 1..Len(get_logging_defaults)}))
    ELSE [heap |-> h, obj |-> log_record, raised |-> FALSE]

\* A _prepare_log_dict that merges the static defaults after the extra.
_prepare_log_dict_defaults_last(h, binding, record, exc_info, capture) ==
    LET b == Build(h, BuiltinFields(record, exc_info))
        e == _prepare_log_extra(b.heap, binding, record)
        u1 == update_fields_with_nested(e.heap, b.obj, items(e.heap, e.obj))
        u2 == IF u1.raised THEN u1
              ELSE update_fields_with_nested(u1.heap, b.obj, get_logging_defaults)
    IN  IF u2.raised THEN u2 ELSE CapturePass(u2.heap, b.obj, record, capture)

\* _prepare_log_dict(record): the built-in fields, then the static defaults,
\* then the context or bound extra, then the captured record attributes.
_prepare_log_dict(h, binding, record, exc_info, capture) ==
    LET b == Build(h, BuiltinFields(record, exc_info))
        e == _prepare_log_extra(b.heap, binding, record)
        u1 == update_fields_with_nested(e.heap, b.obj, get_logging_defaults)
        u2 == IF u1.raised THEN u1
              ELSE update_fields_with_nested(u1.heap, b.obj, items(e.heap, e.obj))
    IN  IF u2.raised THEN u2 ELSE CapturePass(u2.heap, b.obj, record, capture)

\* JsonFormatterMixin.__init__(capture_extra_fields=...)
JsonFormatterMixin_init ==
    /\ fpc = "init"
    /\ fpc' = "ready"
    /\ \E c \in BOOLEAN : capture_extra_fields' = c
    /\ UNCHANGED <<fheap, fctx, nsets, outputs>>
    /\ UNCHANGED not_fmt_vars

\* set_log_extra(extra) in the formatting thread, with a dict the caller built.
fmt_set_log_extra ==
    /\ nsets < MaxCtxSets
    /\ nsets' = nsets + 1
    /\ \E lit \in CtxExtras :
       \E b \in {Build(<< >>, lit)} :
           /\ fheap' = b.heap
           /\ fctx' = b.obj
    /\ UNCHANGED <<fpc, capture_extra_fields, outputs>>
    /\ UNCHANGED not_fmt_vars

\* A log call makes a record, and format(record) returns
\* json_dumps(_prepare_log_dict(record)) or raises.  outputs keeps, with each
\* result, what get_log_extra() showed before and after the call.
format ==
    /\ fpc = "ready" /\ Len(outputs) < MaxFormats
    /\ \E call \in LogCalls :
       \E b \in {IF call.bound = NoBound THEN [heap |-> fheap, obj |-> Unset]
                 ELSE Build(fheap, call.bound.v)} :
       \E r \in {_prepare_log_dict(b.heap, fctx, LogRecord(call.extra, b.obj),
                                   call.exc_info, capture_extra_fields)} :
       \E c \in {Collect(r.heap, <<fctx>>)} :
           /\ outputs' = Append(outputs,
                  [extra |-> call.extra, bound |-> call.bound, exc_info |-> call.exc_info,
                   context |-> IF fctx = Unset THEN EmptyDict ELSE Content(fheap, fctx),
                   context_after |-> IF fctx = Unset THEN EmptyDict
                                    ELSE Content(r.heap, fctx),
                   raised |-> r.raised,
                   out |-> IF r.raised THEN EmptyDict ELSE Content(r.heap, r.obj)])
           /\ fheap' = c.heap
           /\ fctx' = Num(c.order, fctx)
    /\ UNCHANGED <<fpc, capture_extra_fields, nsets>>
    /\ UNCHANGED not_fmt_vars

FmtInit ==
    /\ fpc = "init"
    /\ capture_extra_fields = FALSE
    /\ fheap = << >>
    /\ fctx = Unset
    /\ nsets = 0
    /\ outputs = << >>

FmtNext ==
    \/ JsonFormatterMixin_init
    \/ fmt_set_log_extra
    \/ format

(***************************************************************************)
(* logging_handlers.py, QueueHandlerContextVarsHappyPy312: a producer      *)
(* thread logs through the queue handler, which binds the producer's       *)
(* context extra on the record (prepare) and enqueues it; the listener     *)
(* thread, whose own context has no extra, formats the records with the    *)
(* JSON formatter.  The producer's context and the records refer to dict   *)
(* objects of one heap.                                                    *)
(***************************************************************************)
\* Number of records the producer logs.
MaxXferRecords == 2
\* Number of set_log_extra / update_log_extra calls the producer makes.
MaxXferUpdates == 2

\* The mappings the producer gives to set_log_extra.
XferExtras == { "nested" :> Map("a" :> Scalar(34)), "x" :> Scalar(31) }
\* The mappings the producer gives to update_log_extra.
XferPatches == { "later" :> Scalar(36), "nested" :> Map("c" :> Scalar(37)) }
\* The extra={...} of the producer's log calls.
XferRecordExtras ==
    { << >>,
      <<[key |-> "simple", value |-> Scalar(51)]>>,
      <<[key |-> "nested.id", value |-> Scalar(52)]>> }

\* The dict objects the producer's context and the queued records refer to.
XferRoots(c, q) == <<c>> \o [i \in 1..Len(q) |-> q[i].binded_ctx_extra]

\* The state after a step: garbage dropped, the objects renumbered.
XferInstall(h, c, q) ==
    \E g \in {Collect(h, XferRoots(c, q))} :
        /\ xheap' = g.heap
        /\ xctx' = Num(g.order, c)
        /\ xqueue' = [i \in 1..Len(q) |->
                         [q[i] EXCEPT !.binded_ctx_extra = Num(g.order, @)]]

\* The listener's handler is given a JSON formatter
\* (JsonFormatterMixin.__init__(capture_extra_fields=...)).
xfer_formatter_init ==
    /\ xpc = "init"
    /\ xpc' = "run"
    /\ \E c \in BOOLEAN : xcapture' = c
    /\ UNCHANGED <<xheap, xctx, xqueue, xsent, xupdates, xout>>
    /\ UNCHANGED not_xfer_vars

\* The producer calls set_log_extra(log_extra) with a dict it built.
producer_set_log_extra ==
    /\ xupdates < MaxXferUpdates
    /\ xupdates' = xupdates + 1
    /\ \E lit \in XferExtras :
       \E b \in {Build(xheap, lit)} :
           XferInstall(b.heap, b.obj, xqueue)
    /\ UNCHANGED <<xpc, xcapture, xsent, xout>>
    /\ UNCHANGED not_xfer_vars

\* The producer calls update_log_extra(updates): lines 34-35.
producer_update_log_extra ==
    /\ xupdates < MaxXferUpdates
    /\ xupdates' = xupdates + 1
    /\ \E m \in XferPatches :
       \E b \in {Build(xheap, m)} :
       \E r \in {get_log_extra(b.heap, xctx, TRUE)} :
           LET n == NewId(r.heap)
               h1 == r.heap @@ (n :> DictUnion(r.heap[r.obj], r.heap[b.obj]))
           IN  XferInstall(h1, n, xqueue)
    /\ UNCHANGED <<xpc, xcapture, xsent, xout>>
    /\ UNCHANGED not_xfer_vars

\* QueueHandlerContextVarsHappyPy312.prepare, line 67:
\* record.binded_ctx_extra = get_log_extra()
QueueHandlerContextVarsHappyPy312_prepare(h, binding) ==
    get_log_extra(h, binding, FALSE)

\* The producer logs a record: QueueHandler.emit enqueues prepare(record).
\* seen keeps what the producer's context extra showed at that moment.
producer_emit ==
    /\ xpc = "run" /\ xsent < MaxXferRecords
    /\ xsent' = xsent + 1
    /\ \E e \in XferRecordExtras :
       \E r \in {QueueHandlerContextVarsHappyPy312_prepare(xheap, xctx)} :
           XferInstall(r.heap, xctx,
                       Append(xqueue, [extra |-> e, binded_ctx_extra |-> r.obj,
                                       seen |-> Content(r.heap, r.obj)]))
    /\ UNCHANGED <<xpc, xcapture, xupdates, xout>>
    /\ UNCHANGED not_xfer_vars

\* The listener thread takes the oldest record and its handler formats it
\* with format(record); the thread's own context has no extra.
listener_format ==
    /\ xpc = "run" /\ xqueue # << >>
    /\ \E record \in {Head(xqueue)} :
       \E r \in {_prepare_log_dict(xheap, Unset,
                                   LogRecord(record.extra, record.binded_ctx_extra),
                                   FALSE, xcapture)} :
           /\ xout' = Append(xout,
                  [extra |-> record.extra, seen |-> record.seen,
                   binded_ctx_extra |-> Content(xheap, record.binded_ctx_extra),
                   raised |-> r.raised,
                   out |-> IF r.raised THEN EmptyDict ELSE Content(r.heap, r.obj)])
           /\ XferInstall(r.heap, xctx, Tail(xqueue))
    /\ UNCHANGED <<xpc, xcapture, xsent, xupdates>>
    /\ UNCHANGED not_xfer_vars

XferInit ==
    /\ xpc = "init"
    /\ xcapture = FALSE
    /\ xheap = << >>
    /\ xctx = Unset
    /\ xqueue = << >>
    /\ xsent = 0
    /\ xupdates = 0
    /\ xout = << >>

\* The producer and the listener run concurrently.
XferNext ==
    \/ xfer_formatter_init
    \/ producer_set_log_extra
    \/ producer_update_log_extra
    \/ producer_emit
    \/ listener_format

(***************************************************************************)
(* config_api.py: LoggingConfig.  The dicts of a configuration are objects *)
(* of one heap: the module-level default handler dicts, the dicts of the   *)
(* LoggingConfig instance, and the dict _prepare_config_dict returns.      *)
(***************************************************************************)
\* Number of LoggingConfig(...) constructions.
MaxConfigs == 2
\* Number of _prepare_config_dict() / configure() calls.
MaxPrepares == 2

Str(s) == [k |-> "str", v |-> s]
Bool(b) == [k |-> "bool", v |-> b]

\* sys.version_info of the interpreter: before 3.12, 3.12.4, a later one.
PythonVersions == {"3.11", "3.12.4", "3.13"}

\* import_checker: whether the optional packages can be imported.
import_checker == [is_picologging_installed : BOOLEAN, is_orjson_installed : BOOLEAN]

NoConfig == [logging_module |-> "none"]
NoError == [type |-> "none"]
NoPrepared == [cfg |-> NoConfig]

\* d[key] = value on dict object o
SetItem(h, o, key, value) == [h EXCEPT ![o] = (key :> value) @@ @]
\* d.pop(key)
Pop(h, o, key) == [h EXCEPT ![o] = [x \in DOMAIN @ \ {key} |-> @[x]]]
\* d[key], a nested dict
Item(h, o, key) == h[o][key].v

\* Lines 16-40: default_handlers, as the module leaves it after import.
default_handlers_literal(python) ==
    [console |-> Map([class |-> Str("logging.StreamHandler"),
                      formatter |-> Str("json_fmt"),
                      stream |-> Str("ext://sys.stdout")]),
     queue_handler |->
         IF python = "3.11"
         THEN Map([class |-> Str("modern_pylogging.logging_handlers.QueueListenerHandler"),
                   formatter |-> Str("json_fmt"),
                   respect_handler_level |-> Bool(TRUE)])
         ELSE Map([class |->
                       Str("modern_pylogging.logging_handlers.QueueHandlerContextVarsHappyPy312"),
                   queue |-> Map(("()" :> Str("queue.Queue")) @@ ("maxsize" :> Scalar(-1))),
                   listener |-> Str("modern_pylogging.logging_handlers.LoggingQueueListener"),
                   handlers |-> Str("['console']"),
                   respect_handler_level |-> Bool(TRUE)])]

\* Lines 44-54: default_picologging_handlers.
default_picologging_handlers_literal ==
    [console |->
         Map([class |-> Str("modern_pylogging.picologging_handlers.PicoStreamHandlerToStdout"),
              formatter |-> Str("json_fmt"),
              stream |-> Str("ext://sys.stdout")]),
     queue_handler |->
         Map([class |-> Str("modern_pylogging.picologging_handlers.QueueListenerHandler"),
              formatter |-> Str("json_fmt")])]

\* _get_default_formatters(): new dicts on every call.
_get_default_formatters ==
    [standard |->
         Map(("()" :> Str("modern_pylogging.console_formatter.ConsoleFormatterLogging"))
             @@ ("format" :> Str("%(asctime)s | ..."))),
     json_fmt |->
         Map(("()" :> Str("modern_pylogging.json_formatter.JsonFormatterLogging"))
             @@ ("json_dumps_module" :> Str("json")))]

_get_default_logging_module == IF is_picologging_installed THEN "picologging" ELSE "logging"

_get_default_json_dumps_module == IF is_orjson_installed THEN "orjson" ELSE "json"

\* _get_default_handlers(logging_module): the module-level dict object.
_get_default_handlers(logging_module) ==
    IF logging_module = "picologging" THEN default_picologging_handlers ELSE default_handlers

\* helper_utils.MissingDependencyError(package, install_package=None)
NoInstallPackage == ""
MissingDependencyError(package, install_package) ==
    [type |-> "MissingDependencyError",
     args |-> <<"Package ", package,
                " is not installed but required. You can install it by running ",
                "pip install ",
                IF install_package = NoInstallPackage THEN package ELSE install_package>>]

\* The arguments the callers give to LoggingConfig(...); "default" stands
\* for an argument left out.  Every backend, serializer, capture setting and
\* override with the default formatters and root, then the formatters of
\* test_default_queue_listener_handler and an empty root.
DefaultRoot == "handlers" :> Str("['queue_handler']")
ConfigArgs ==
    [logging_module : {"default", "logging", "picologging"},
     json_dumps_module : {"default", "orjson"},
     capture_extra_fields : BOOLEAN,
     override_formatters :
         { << >>,
           "console" :> "standard",
           ("console" :> "standard") @@ ("queue_handler" :> "standard"),
           "file" :> "standard" },
     formatters : {EmptyDict},
     root : {DefaultRoot}]
    \cup
    [logging_module : {"logging", "picologging"},
     json_dumps_module : {"default"},
     capture_extra_fields : {FALSE},
     override_formatters : {("console" :> "standard") @@ ("queue_handler" :> "standard")},
     formatters :
         {"standard" :> Map("format" :> Str("%(levelname)s :: %(name)s :: %(message)s"))},
     root : {DefaultRoot}]
    \cup
    [logging_module : {"default"},
     json_dumps_module : {"default"},
     capture_extra_fields : {TRUE},
     override_formatters : {<< >>},
     formatters : {EmptyDict},
     root : {EmptyDict}]

\* The dict objects the module and the current instance refer to.
ConfigRoots(dh, dph, inst) ==
    <<dh, dph>> \o (IF inst = NoConfig THEN << >>
                    ELSE <<inst.formatters, inst.handlers, inst.root>>)

\* The state after a step: garbage dropped, the objects renumbered.
ConfigInstall(h, dh, dph, inst) ==
    \E g \in {Collect(h, ConfigRoots(dh, dph, inst))} :
        /\ cheap' = g.heap
        /\ default_handlers' = Num(g.order, dh)
        /\ default_picologging_handlers' = Num(g.order, dph)
        /\ self' = IF inst = NoConfig THEN NoConfig
                   ELSE [inst EXCEPT !.formatters = Num(g.order, @),
                                     !.handlers = Num(g.order, @),
                                     !.root = Num(g.order, @)]

\* The module is imported: the interpreter and the installed packages are
\* what they are, and lines 16-54 build the module-level dicts.
import_config_api ==
    /\ cfg_pc = "import"
    /\ cfg_pc' = "ready"
    /\ \E v \in PythonVersions, ic \in import_checker :
           /\ version' = v
           /\ is_picologging_installed' = ic.is_picologging_installed
           /\ is_orjson_installed' = ic.is_orjson_installed
           /\ \E b1 \in {Build(<< >>, default_handlers_literal(v))} :
              \E b2 \in {Build(b1.heap, default_picologging_handlers_literal)} :
                  /\ ConfigInstall(b2.heap, b1.obj, b2.obj, NoConfig)
                  /\ defaults_at_import' =
                         [default_handlers |-> Content(b2.heap, b1.obj),
                          default_picologging_handlers |-> Content(b2.heap, b2.obj)]
    /\ UNCHANGED <<last_init, last_prepared, configured, nconfigs, nprepares>>
    /\ UNCHANGED not_cfg_vars

\* Lines 170-177: the formatters and handlers the caller left out are
\* filled in; a handler is the module-level default dict itself.
FillDefaults(h, formatters, handlers, logging_module) ==
    LET s == IF "standard" \in DOMAIN h[formatters] THEN [heap |-> h]
             ELSE LET b == Build(h, _get_default_formatters.standard.v)
                  IN  [heap |-> SetItem(b.heap, formatters, "standard", Ref(b.obj))]
        j == IF "json_fmt" \in DOMAIN s.heap[formatters] THEN s
             ELSE LET b == Build(s.heap, _get_default_formatters.json_fmt.v)
                  IN  [heap |-> SetItem(b.heap, formatters, "json_fmt", Ref(b.obj))]
        dflt == _get_default_handlers(logging_module)
        c == IF "console" \in DOMAIN j.heap[handlers] THEN j.heap
             ELSE SetItem(j.heap, handlers, "console", j.heap[dflt]["console"])
    IN  IF "queue_handler" \in DOMAIN c[handlers] THEN c
        ELSE SetItem(c, handlers, "queue_handler", c[dflt]["queue_handler"])

\* Lines 178-185: with picologging the two default formatter classes are
\* replaced by their picologging variants.
PicologgingFormatters(h, formatters, logging_module) ==
    LET json_fmt == Item(h, formatters, "json_fmt")
        standard == Item(h, formatters, "standard")
        h1 == IF "()" \in DOMAIN h[json_fmt]
                 /\ h[json_fmt]["()"] =
                        Str("modern_pylogging.json_formatter.JsonFormatterLogging")
              THEN SetItem(h, json_fmt, "()",
                           Str("modern_pylogging.json_formatter.JsonFormatterPicologging"))
              ELSE h
    IN  IF logging_module # "picologging" THEN h
        ELSE IF "()" \in DOMAIN h1[standard]
                /\ h1[standard]["()"] =
                       Str("modern_pylogging.console_formatter.ConsoleFormatterLogging")
             THEN SetItem(h1, standard, "()",
                     Str("modern_pylogging.console_formatter.ConsoleFormatterPicologging"))
             ELSE h1

\* A __post_init__ without the two dependency checks.
LoggingConfig_post_init_unchecked(logging_module, json_dumps_module) == NoError

\* __post_init__, lines 166-169: the error it raises, if any.
LoggingConfig_post_init_check(logging_module, json_dumps_module) ==
    IF logging_module = "picologging" /\ is_picologging_installed = FALSE
    THEN MissingDependencyError("picologging", NoInstallPackage)
    ELSE IF json_dumps_module = "orjson" /\ is_orjson_installed = FALSE
    THEN MissingDependencyError("orjson", NoInstallPackage)
    ELSE NoError

\* LoggingConfig(...): the dataclass __init__ takes the arguments or their
\* default factories, then __post_init__ runs.  When it raises, no instance
\* exists.
LoggingConfig_init ==
    /\ cfg_pc = "ready" /\ nconfigs < MaxConfigs
    /\ nconfigs' = nconfigs + 1
    /\ \E a \in ConfigArgs :
       \E logging_module \in {IF a.logging_module = "default"
                              THEN _get_default_logging_module ELSE a.logging_module} :
       \E json_dumps_module \in {IF a.json_dumps_module = "default"
                                 THEN _get_default_json_dumps_module
                                 ELSE a.json_dumps_module} :
       \E err \in {LoggingConfig_post_init_check(logging_module, json_dumps_module)} :
           /\ last_init' = [args |-> a, error |-> err]
           /\ last_prepared' = NoPrepared
           /\ IF err # NoError
              THEN ConfigInstall(cheap, default_handlers, default_picologging_handlers,
                                 NoConfig)
              ELSE \E f \in {Build(cheap, a.formatters)} :
                   \E hd \in {Build(f.heap, EmptyDict)} :
                   \E r \in {Build(hd.heap, a.root)} :
                       ConfigInstall(
                           PicologgingFormatters(
                               FillDefaults(r.heap, f.obj, hd.obj, logging_module),
                               f.obj, logging_module),
                           default_handlers, default_picologging_handlers,
                           [logging_module |-> logging_module,
                            json_dumps_module |-> json_dumps_module,
                            capture_extra_fields |-> a.capture_extra_fields,
                            override_formatters |-> a.override_formatters,
                            formatters |-> f.obj, handlers |-> hd.obj, root |-> r.obj])
    /\ UNCHANGED <<cfg_pc, version, is_picologging_installed, is_orjson_installed,
                   defaults_at_import, configured, nprepares>>
    /\ UNCHANGED not_cfg_vars

\* Lines 221-224: the formatter of every named handler that has one is
\* replaced; naming a handler that does not exist raises KeyError.
patch_formatters(h, override_formatters, source) ==
    LET handlers == Item(h, source, "handlers")
    IN  IF \E name \in DOMAIN override_formatters : name \notin DOMAIN h[handlers]
        THEN [heap |-> h, obj |-> source, raised |-> TRUE]
        ELSE [heap |-> [o \in DOMAIN h |->
                           IF \E name \in DOMAIN override_formatters :
                                  /\ h[handlers][name] = Ref(o)
                                  /\ "formatter" \in DOMAIN h[o]
                           THEN [h[o] EXCEPT !["formatter"] =
                                    Str(override_formatters[
                                        CHOOSE name \in DOMAIN override_formatters :
                                            h[handlers][name] = Ref(o)])]
                           ELSE h[o]],
              obj |-> source, raised |-> FALSE]

\* A replace_formatters that patches source itself.
replace_formatters_in_place(h, override_formatters, source) ==
    patch_formatters(h, override_formatters, source)

\* replace_formatters(override_formatters, source), lines 199-225: with an
\* empty override source is returned as it is; otherwise a deep copy of it
\* is patched.
replace_formatters(h, override_formatters, source) ==
    IF DOMAIN override_formatters = {}
    THEN [heap |-> h, obj |-> source, raised |-> FALSE]
    ELSE LET d == deepcopy(h, source)
         IN  patch_formatters(d.heap, override_formatters, d.obj)

\* _python_3_12_4_fix(config_dict), lines 255-264
_python_3_12_4_fix(h, config_dict) ==
    LET queue_handler == Item(h, Item(h, config_dict, "handlers"), "queue_handler")
    IN  IF version = "3.12.4" /\ "queue" \in DOMAIN h[queue_handler]
        THEN [heap |-> Pop(h, queue_handler, "queue"), warnings |-> {"python_3_12_4"}]
        ELSE [heap |-> h, warnings |-> {}]

\* Lines 249-251 without the override: the caller's setting is kept.
ForceCaptureOffNever(h, config_dict, cfg) == [heap |-> h, warnings |-> {}]

\* Lines 249-251: with picologging a requested capture_extra_fields is
\* switched off in the prepared dict, with a warning.
ForceCaptureOff(h, config_dict, cfg) ==
    IF cfg.logging_module = "picologging" /\ cfg.capture_extra_fields
    THEN [heap |-> SetItem(h, Item(h, Item(h, config_dict, "formatters"), "json_fmt"),
                           "capture_extra_fields", Bool(FALSE)),
          warnings |-> {"picologging_and_capture_extra_fields"}]
    ELSE [heap |-> h, warnings |-> {}]

\* _prepare_config_dict(), lines 227-252, on instance cfg.
_prepare_config_dict(h, cfg) ==
    LET \* lines 228-237: the entries of config_base that are not empty
        b == Build(h, "version" :> Scalar(1))
        h0 == [b.heap EXCEPT ![b.obj] =
                  @ @@ ("formatters" :> Ref(cfg.formatters))
                    @@ ("handlers" :> Ref(cfg.handlers))
                    @@ (IF b.heap[cfg.root] # EmptyDict THEN "root" :> Ref(cfg.root)
                        ELSE << >>)]
        json_fmt == Item(h0, cfg.formatters, "json_fmt")
        standard == Item(h0, cfg.formatters, "standard")
        \* lines 238-239
        h1 == SetItem(SetItem(h0, json_fmt, "json_dumps_module", Str(cfg.json_dumps_module)),
                      json_fmt, "capture_extra_fields", Bool(cfg.capture_extra_fields))
    IN  IF "root" \notin DOMAIN h1[b.obj]
        THEN \* line 240: KeyError
             [heap |-> h1, obj |-> b.obj, raised |-> TRUE, warnings |-> {}]
        ELSE LET h2 == SetItem(h1, cfg.root, "level", Str("INFO"))
                 \* lines 241-245
                 h3 == IF cfg.logging_module = "picologging"
                          /\ "datefmt" \notin DOMAIN h2[standard]
                       THEN SetItem(h2, standard, "datefmt", Str("%F %T"))
                       ELSE h2
                 \* line 247
                 r == replace_formatters(h3, cfg.override_formatters, b.obj)
             IN  IF r.raised
                 THEN [heap |-> r.heap, obj |-> r.obj, raised |-> TRUE, warnings |-> {}]
                 ELSE LET fx == _python_3_12_4_fix(r.heap, r.obj)
                          cp == ForceCaptureOff(fx.heap, r.obj, cfg)
                      IN  [heap |-> cp.heap, obj |-> r.obj, raised |-> FALSE,
                           warnings |-> fx.warnings \cup cp.warnings]

\* What a call of _prepare_config_dict leaves behind: the module's and the
\* instance's dicts as the call left them, and a record of the last call on
\* the instance.
Prepared(r) ==
    /\ ConfigInstall(r.heap, default_handlers, default_picologging_handlers, self)
    /\ last_prepared' =
           [cfg |-> [logging_module |-> self.logging_module,
                     json_dumps_module |-> self.json_dumps_module,
                     capture_extra_fields |-> self.capture_extra_fields,
                     override_formatters |-> self.override_formatters],
            handlers_before |-> Content(cheap, self.handlers),
            defaults_before |->
                [default_handlers |-> Content(cheap, default_handlers),
                 default_picologging_handlers |->
                     Content(cheap, default_picologging_handlers)],
            defaults_after |->
                [default_handlers |-> Content(r.heap, default_handlers),
                 default_picologging_handlers |->
                     Content(r.heap, default_picologging_handlers)],
            handlers_after |-> Content(r.heap, self.handlers),
            raised |-> r.raised,
            warnings |-> r.warnings,
            config_dict |-> IF r.raised THEN EmptyDict ELSE Content(r.heap, r.obj)]

\* A caller (a test) calls _prepare_config_dict() on the instance.
prepare_config_dict_call ==
    /\ cfg_pc = "ready" /\ self # NoConfig /\ nprepares < MaxPrepares
    /\ nprepares' = nprepares + 1
    /\ \E r \in {_prepare_config_dict(cheap, self)} : Prepared(r)
    /\ UNCHANGED <<cfg_pc, version, is_picologging_installed, is_orjson_installed,
                   defaults_at_import, last_init, configured, nconfigs>>
    /\ UNCHANGED not_cfg_vars

\* configure(), lines 187-197: the prepared dict is handed to the dictConfig
\* of the backend, whose import fails when picologging is missing.
configure ==
    /\ cfg_pc = "ready" /\ self # NoConfig /\ nprepares < MaxPrepares
    /\ nprepares' = nprepares + 1
    /\ \E r \in {_prepare_config_dict(cheap, self)} :
           /\ Prepared(r)
           /\ configured' =
                  IF r.raised \/ (self.logging_module = "picologging"
                                  /\ ~is_picologging_installed)
                  THEN configured
                  ELSE self.logging_module
    /\ UNCHANGED <<cfg_pc, version, is_picologging_installed, is_orjson_installed,
                   defaults_at_import, last_init, nconfigs>>
    /\ UNCHANGED not_cfg_vars

ConfigInit ==
    /\ cfg_pc = "import"
    /\ version = "3.11"
    /\ is_picologging_installed = FALSE
    /\ is_orjson_installed = FALSE
    /\ cheap = << >>
    /\ default_handlers = Unset
    /\ default_picologging_handlers = Unset
    /\ defaults_at_import = EmptyDict
    /\ self = NoConfig
    /\ last_init = [args |-> EmptyDict, error |-> NoError]
    /\ last_prepared = NoPrepared
    /\ configured = "none"
    /\ nconfigs = 0
    /\ nprepares = 0

ConfigNext ==
    \/ import_config_api
    \/ LoggingConfig_init
    \/ prepare_config_dict_call
    \/ configure

ProxyInit ==
    /\ proxies = <<>>
    /\ _proxy_loggers = <<>>
    /\ _logger_factory = NoFactory
    /\ fallback_errors = 0
    /\ factory_calls = 0
    /\ handed = <<>>
    /\ served = [p \in 1..MaxCalls |-> {}]
    /\ ncalls = 0
    /\ pc = [t \in Threads |-> "idle"]
    /\ op = [t \in Threads |-> "none"]
    /\ tname = [t \in Threads |-> ""]
    /\ tproxy = [t \in Threads |-> 0]
    /\ tfn = [t \in Threads |-> NoFactory]
    /\ it_used = [t \in Threads |-> 0]
    /\ it_i = [t \in Threads |-> 0]
    /\ ret = [t \in Threads |-> NoLogger]

Init == ProxyInit /\ CtxInit /\ QueueInit /\ MergeInit /\ FmtInit /\ XferInit /\ ConfigInit

\* Threads call into logging_manager concurrently.
ProxyNext == \E t \in Threads : ThreadStep(t)

\* The same calls, one at a time: a call starts only when no other is running.
SeqThreadStep(t) ==
    \/ (\A u \in Threads : Idle(u)) /\ get_logger_call(t)
    \/ (\A u \in Threads : Idle(u)) /\ setup_proxy_loggers_call(t)
    \/ (\A u \in Threads : Idle(u)) /\ real_logger_call(t)
    \/ get_logger_64(t)
    \/ get_logger_65(t)
    \/ get_logger_67(t)
    \/ get_logger_68(t)
    \/ get_logger_69(t)
    \/ setup_proxy_loggers_57(t)
    \/ setup_proxy_loggers_59_iter(t)
    \/ setup_proxy_loggers_59_next(t)
    \/ setup_proxy_loggers_60(t)
    \/ real_logger_36(t)
    \/ real_logger_37(t)
    \/ real_logger_38(t)
    \/ real_logger_42(t)
    \/ real_logger_43(t)

ProxySeqNext == \E t \in Threads : SeqThreadStep(t)

SpecProxy == Init /\ [][ProxyNext]_vars
SpecProxySeq == Init /\ [][ProxySeqNext]_vars
SpecCtx == Init /\ [][CtxNext]_vars
SpecQueue == Init /\ [][QueueNext]_vars
SpecMerge == Init /\ [][MergeNext]_vars
SpecFmt == Init /\ [][FmtNext]_vars
SpecXfer == Init /\ [][XferNext]_vars
SpecConfig == Init /\ [][ConfigNext]_vars

(***************************************************************************)
(* Claims about the logger proxies and the registry.                       *)
(***************************************************************************)
ProxyIds == 1..Len(proxies)
AllReturned == \A t \in Threads : Idle(t)
\* The real handles (not the fallback) that uses of proxy p have returned.
Resolved(p) == served[p] \ {fallback_logger, NoLogger}

\* C1: for one proxy, under any interleaving of threads that use it for the
\* first time, the factory is invoked at most once for that proxy (so no
\* second factory result can replace the cached handle).
C1_FactoryInvokedAtMostOnce == \A p \in ProxyIds : proxies[p].ninv <= 1

\* C2: once a get_logger call and a setup_proxy_loggers call that ran
\* concurrently have both returned (neither raised), no registered proxy is
\* left with its factory unset.
C2_NeverStuckUnbound ==
    (AllReturned /\ _logger_factory # NoFactory /\ \A t \in Threads : ret[t] # Raised)
        => \A i \in 1..Len(_proxy_loggers) :
               proxies[_proxy_loggers[i].proxy].factory # NoFactory

\* C3: under any interleaving of concurrent get_logger calls, all calls made
\* with the same name return the same proxy instance.
C3_SameNameSameProxy ==
    \A i, j \in 1..Len(handed) :
        handed[i].name = handed[j].name => handed[i].proxy = handed[j].proxy

\* C4: in a sequential history of get_logger and setup_proxy_loggers calls,
\* two get_logger calls with the same name return the identical proxy, and
\* a registered name is never removed nor mapped to a different proxy: the
\* registry still maps every name to the proxy that was handed out for it.
C4_RegistryIdentity ==
    /\ \A i, j \in 1..Len(handed) :
           handed[i].name = handed[j].name => handed[i].proxy = handed[j].proxy
    /\ \A i \in 1..Len(handed) :
           InRegistry(handed[i].name) /\ Lookup(handed[i].name) = handed[i].proxy
    /\ \A i, j \in 1..Len(_proxy_loggers) :
           _proxy_loggers[i].name = _proxy_loggers[j].name => i = j

\* C4's case: the same name was requested twice, with a setup in the history.
C4_Witness ==
    /\ \E i, j \in 1..Len(handed) : i < j /\ handed[i].name = handed[j].name
    /\ _logger_factory # NoFactory
    /\ AllReturned

\* C5: a proxy created before setup_proxy_loggers(f) resolves on its next
\* use after setup by calling the factory with the proxy's name, caches the
\* result, and every later use of the proxy returns that same cached handle:
\* the uses of such a proxy never return two different real handles.
C5_PreSetupProxyResolvesOnce ==
    \A p \in ProxyIds :
        proxies[p].pre_setup =>
            /\ Cardinality(Resolved(p)) <= 1
            /\ \A h \in Resolved(p) :
                   /\ h.name = proxies[p].name
                   /\ h.fac \in Factories
                   /\ proxies[p]._real_logger = h

\* C6: a use of a proxy that finds no factory bound (line 38) does not
\* raise: it returns the fallback logger, reports once through
\* fallback_logger.error, and leaves the proxy unresolved (the fallback is
\* not cached); and no use of a proxy ever raises.
UnboundUse(t) ==
    /\ pc[t] = "real_logger:38"
    /\ pc'[t] # "real_logger:38"
    /\ proxies[tproxy[t]].factory = NoFactory
C6_UnboundUseFallsBack ==
    [][/\ \A t \in Threads :
              UnboundUse(t) =>
                  /\ ret'[t] = fallback_logger
                  /\ fallback_errors' = fallback_errors + 1
                  /\ proxies'[tproxy[t]]._real_logger = NoLogger
       /\ \A t \in Threads : op'[t] = "real_logger" => ret'[t] # Raised
       /\ \A p \in 1..Len(proxies') : proxies'[p]._real_logger # fallback_logger]_vars

\* C6's case: a use has returned the fallback, the diagnostic was logged
\* and the proxy is still unresolved.
C6_Witness ==
    \E t \in Threads :
        /\ Idle(t) /\ op[t] = "real_logger"
        /\ ret[t] = fallback_logger
        /\ fallback_errors >= 1
        /\ proxies[tproxy[t]]._real_logger = NoLogger

\* C24: setup_proxy_loggers(f) stores f in _logger_factory and, once it has
\* run, every registered proxy has f as its factory, those registered before
\* the call and those a later get_logger creates; no step of setup invokes a
\* factory or sets a resolved handle: a handle is only ever set by a use of
\* the proxy (real_logger, line 42).
InSetup(t) == op[t] = "setup_proxy_loggers" /\ ~Idle(t)
C25_DiagnosticAtMostOnce == \A p \in ProxyIds : proxies[p].nerr <= 1

C7_TaskSeesInheritedPlusOwn ==
    \A t \in Tasks : cpc[t] # "unborn" => ReadExtra(t) = expect[t]

\* C7's case: the child inherited a non-empty p and added x: 1; the parent
\* still reads p and the sibling spawned from the same parent does not see x.
C7_Witness ==
    /\ cpc["child"] = "idle" /\ cpc["sibling"] = "idle" /\ cpc["main"] = "idle"
    /\ parent["child"] = "main" /\ parent["sibling"] = "main"
    /\ inherited["child"] = ("y" :> Scalar(2)) /\ inherited["sibling"] = ("y" :> Scalar(2))
    /\ before["child"] = ("y" :> Scalar(2)) /\ patch["child"] = ("x" :> Scalar(1))
    /\ ReadExtra("child") = [x |-> Scalar(1), y |-> Scalar(2)]
    /\ ReadExtra("main") = ("y" :> Scalar(2))
    /\ ReadExtra("sibling") = ("y" :> Scalar(2))

\* C8: no call raises (an unset scope reads as the empty mapping), and once
\* update_log_extra(m) has returned, the scope reads the key union of the
\* mapping it read when the call started and m, m's values winning; from an
\* unset scope that is exactly m.
C8_UpdateIsUnionPatchWins ==
    \A t \in Tasks :
        /\ ~exc[t]
        /\ cpc[t] = "idle" => ReadExtra(t) = Overlay(before[t], patch[t])

\* C8's case: one task updated a key it already had with another value, and
\* another task updated an unset scope and reads exactly its patch.
C8_Witness ==
    /\ \E t \in Tasks :
           /\ cpc[t] = "idle"
           /\ \E key \in DOMAIN before[t] \cap DOMAIN patch[t] :
                  /\ before[t][key] # patch[t][key]
                  /\ ReadExtra(t)[key] = patch[t][key]
           /\ DOMAIN before[t] \ DOMAIN patch[t] # {}
    /\ \E u \in Tasks :
           /\ cpc[u] = "idle" /\ inherited[u] = EmptyDict
           /\ before[u] = EmptyDict /\ patch[u] # EmptyDict
           /\ ReadExtra(u) = patch[u]

\* C27: update_log_extra never changes in place the mapping that was
\* current before the call, nor a mapping nested in it: a reference a caller
\* took with get_log_extra() still shows, nested mappings included, the
\* content it showed when it was taken, whatever updates ran since.
C27_HeldMappingNeverMutated ==
    held # Unset => Content(heap, held) = held_seen

\* C27's case: a caller holds the mapping, which has a nested mapping, and
\* an update_log_extra that patched the nested key has since replaced it in
\* the context: the context now reads differently from the held mapping.
C27_Witness ==
    /\ held # Unset /\ held_upd
    /\ \E key \in DOMAIN held_seen : held_seen[key].k = "map"
    /\ \E t \in Tasks :
           /\ cpc[t] = "idle"
           /\ ctx[t] # held
           /\ before[t] = held_seen
           /\ ReadExtra(t) # held_seen
           /\ \E key \in DOMAIN patch[t] :
                  key \in DOMAIN held_seen /\ held_seen[key].k = "map"

C10_StopRunsOnce == Len(stops) <= 1

\* C11: the consumer hands the records to every downstream handler in the
\* order they arrived in the queue, so the records of one producer thread
\* reach a handler in the order that thread emitted them.
C11_FifoPerProducer ==
    \A h \in DOMAIN delivered :
        \A i, j \in 1..Len(delivered[h]) :
            i < j =>
                /\ delivered[h][i] < delivered[h][j]
                /\ emitted_by[delivered[h][i]].thread = emitted_by[delivered[h][j]].thread
                   => emitted_by[delivered[h][i]].rank < emitted_by[delivered[h][j]].rank

\* C11's case: two threads emitted in turn, records of both were waiting in
\* the queue together, and a handler has received all three records.
C11_Witness ==
    /\ Len(emitted_by) = 3
    /\ emitted_by[1].thread = "P1" /\ emitted_by[2].thread = "P2" /\ emitted_by[3].thread = "P1"
    /\ pending_at_stop >= 2
    /\ delivered["h1"] = <<1, 2, 3>>

\* C12: when a downstream handler raises while the consumer dispatches a
\* record, the consumer thread keeps running and the other handlers still
\* receive that record.
C12_SinkFailureIsolated ==
    \A i \in 1..Len(sink_raised) :
        /\ monitor # "crashed"
        /\ \A h \in DOMAIN delivered :
               h # sink_raised[i].handler =>
                   \E j \in 1..Len(delivered[h]) : delivered[h][j] = sink_raised[i].record

(***************************************************************************)
(* Claims about update_fields_with_nested.                                 *)
(***************************************************************************)
\* The paths of mapping c that end in a value that is no mapping.
RECURSIVE Leaves(_)
Leaves(c) ==
    UNION { IF c[key].k = "map"
            THEN { <<key>> \o path : path \in Leaves(c[key].v) }
            ELSE { <<key>> } : key \in DOMAIN c }

\* The value of mapping c at a path, Absent when the path leads nowhere.
Absent == [k |-> "absent", v |-> 0]
RECURSIVE At(_, _)
At(c, path) ==
    IF Head(path) \notin DOMAIN c THEN Absent
    ELSE IF Len(path) = 1 THEN c[Head(path)]
         ELSE IF c[Head(path)].k = "map" THEN At(c[Head(path)].v, Tail(path))
              ELSE Absent

IsPrefix(a, b) == Len(a) <= Len(b) /\ SubSeq(b, 1, Len(a)) = a

\* The items of the last call that walk through a scalar of the destination.
ThroughScalar ==
    { i \in 1..Len(updated_fields) :
        \E n \in 1..(Len(split(updated_fields[i].key)) - 1) :
            At(mbefore, SubSeq(split(updated_fields[i].key), 1, n)).k = "int" }

\* C13: a call whose update key nests under a scalar of the destination
\* (destination {'a': 1}, update {'a.b': 2}) does not raise: it overwrites
\* the scalar with a nested mapping holding the update's value.
C13_ScalarIntermediateOverwritten ==
    (ncalls_merge > 0 /\ Len(updated_fields) = 1 /\ ThroughScalar # {}) =>
        /\ ~mraised
        /\ At(Content(mheap, source_data), split(updated_fields[1].key))
               = updated_fields[1].value

\* C14: for every update key the call walks the key's segments, creating
\* the missing intermediate mappings, and sets the last segment to the
\* update's value (a key without a dot sets a top-level field), and it
\* returns the mutated destination.
C14_DottedKeysBecomeNested ==
    ncalls_merge > 0 =>
        /\ ~mraised /\ mret = source_data
        /\ \A i \in 1..Len(updated_fields) :
               (\A j \in (i + 1)..Len(updated_fields) :
                    /\ ~IsPrefix(split(updated_fields[j].key), split(updated_fields[i].key))
                    /\ ~IsPrefix(split(updated_fields[i].key), split(updated_fields[j].key)))
               => At(Content(mheap, source_data), split(updated_fields[i].key))
                      = updated_fields[i].value

\* C15: a call leaves untouched every leaf of the destination that lies
\* neither on nor under the path of an update key: after {'p.x': 1} and
\* then {'p.y': 2} the destination holds both p.x = 1 and p.y = 2.
C15_OtherLeavesUntouched ==
    ncalls_merge > 0 =>
        \A path \in Leaves(mbefore) :
            (\A i \in 1..Len(updated_fields) :
                 /\ ~IsPrefix(path, split(updated_fields[i].key))
                 /\ ~IsPrefix(split(updated_fields[i].key), path))
            => At(Content(mheap, source_data), path) = At(mbefore, path)

\* C15's case: p.x = 1 was merged first and p.y = 2 afterwards into the
\* nested object the first merge created; both are there.
C15_Witness ==
    /\ ncalls_merge = 2 /\ ~mraised
    /\ updated_fields = <<[key |-> "p.y", value |-> Scalar(2)]>>
    /\ At(mbefore, <<"p", "x">>) = Scalar(1)
    /\ At(mbefore, <<"p", "y">>) = Absent
    /\ At(Content(mheap, source_data), <<"p", "x">>) = Scalar(1)
    /\ At(Content(mheap, source_data), <<"p", "y">>) = Scalar(2)

(***************************************************************************)
(* Claims about the JSON formatter.                                        *)
(***************************************************************************)
\* The format calls that returned an output.
Returned == { i \in 1..Len(outputs) : ~outputs[i].raised }

\* The keys the built-in fields and the static defaults set at top level.
BuiltinKeys == {"timestamp", "level", "message", "params", "error"}
DefaultKeys == {"env", "system", "inst"}

\* The extra the formatter is to merge for call i: the context extra, or
\* the bound fields when the context extra is empty.
EffectiveExtra(i) ==
    IF outputs[i].context # EmptyDict THEN outputs[i].context
    ELSE IF outputs[i].bound # NoBound THEN outputs[i].bound.v ELSE EmptyDict

\* The values Scalar(n) of a source, by the tens digit of n.
FromSource(value, tens) == value.k = "int" /\ value.v \div 10 = tens

\* C16: with capture_extra_fields enabled, every record attribute whose key
\* is not in the fixed reserved set and does not start with '_' is merged
\* last: the output holds its value, whatever the static defaults, the
\* built-in fields and the context hold for that key.
C16_CapturedExtraWinsOverAll ==
    capture_extra_fields =>
        \A i \in Returned :
            \A n \in 1..Len(outputs[i].extra) :
                (/\ outputs[i].extra[n].key \notin RESERVED_ATTRS
                 /\ ~startswith_underscore(outputs[i].extra[n].key))
                => At(outputs[i].out, split(outputs[i].extra[n].key))
                       = outputs[i].extra[n].value

\* C17: the static defaults and the built-in fields are merged before the
\* context (or bound) extra: for every key of that extra that the defaults
\* or the built-in fields also set, the output holds the extra's value,
\* unless a captured record attribute was merged over it afterwards.
C17_ContextWinsOverDefaults ==
    \A i \in Returned :
        \A key \in DOMAIN EffectiveExtra(i) \cap (BuiltinKeys \cup DefaultKeys) :
            (capture_extra_fields =>
                 \A n \in 1..Len(outputs[i].extra) : Head(split(outputs[i].extra[n].key)) # key)
            => outputs[i].out[key] = EffectiveExtra(i)[key]

\* C17's case: the context extra sets env and message, which the defaults
\* and the built-in fields set too, and the output holds the context's values.
C17_Witness ==
    \E i \in Returned :
        /\ outputs[i].context = [env |-> Scalar(32), message |-> Scalar(33)]
        /\ outputs[i].out["env"] = Scalar(32)
        /\ outputs[i].out["message"] = Scalar(33)
        /\ outputs[i].out["system"] = Scalar(22)

\* C18: when the context extra is not empty, the fields bound on the record
\* are ignored: no value of the output comes from them; they are used only
\* when the context extra is empty or unset.
C18_ContextExcludesBound ==
    \A i \in Returned :
        outputs[i].bound # NoBound =>
            IF outputs[i].context # EmptyDict
            THEN \A path \in Leaves(outputs[i].out) :
                     ~FromSource(At(outputs[i].out, path), 4)
            ELSE \A key \in DOMAIN outputs[i].bound.v :
                     outputs[i].out[key] = outputs[i].bound.v[key]

\* C18's case: a record with bound fields is formatted under a context
\* extra that is not empty, and another under an unset context.
C18_Witness ==
    /\ \E i \in Returned :
           /\ outputs[i].bound = Map("b" :> Scalar(41))
           /\ outputs[i].context = ("x" :> Scalar(31))
           /\ "b" \notin DOMAIN outputs[i].out
           /\ outputs[i].out["x"] = Scalar(31)
    /\ \E i \in Returned :
           /\ outputs[i].bound = Map("b" :> Scalar(41))
           /\ outputs[i].context = EmptyDict
           /\ outputs[i].out["b"] = Scalar(41)

\* C19: with capture_extra_fields enabled, a field given through the extra
\* of one log call never appears in the output of a later call that gave no
\* extra: no value of that output comes from a per-call extra.
C19_ExtraDoesNotLeak ==
    \A j \in Returned :
        outputs[j].extra = << >> =>
            \A path \in Leaves(outputs[j].out) : ~FromSource(At(outputs[j].out, path), 5)

C29_FormatLeavesContextUnchanged ==
    \A i \in 1..Len(outputs) : outputs[i].context_after = outputs[i].context

(***************************************************************************)
(* Claims about the hand-off of the context extra to the listener thread.  *)
(***************************************************************************)
\* What format returns for a record with extra e whose bound mapping is a
\* private mapping with the content c.
FormattedWith(e, c) ==
    LET b == Build(<< >>, c)
        r == _prepare_log_dict(b.heap, Unset, LogRecord(e, b.obj), FALSE, xcapture)
    IN  [raised |-> r.raised,
         out |-> IF r.raised THEN EmptyDict ELSE Content(r.heap, r.obj)]

\* C26: the listener thread formats every record with exactly the fields
\* the producer's context extra had when the record was enqueued: what it
\* returns is what formatting the record with that mapping returns,
\* whatever the producer and the listener did between enqueue and dispatch.
C26_FormattedWithExtraAsEnqueued ==
    \A i \in 1..Len(xout) :
        /\ xout[i].binded_ctx_extra = xout[i].seen
        /\ [raised |-> xout[i].raised, out |-> xout[i].out]
               = FormattedWith(xout[i].extra, xout[i].seen)

\* C28: the mapping bound on a record as binded_ctx_extra is never the
\* object bound in the producer's context: it is a copy of it.
C28_BoundExtraIsNotContextObject ==
    \A i \in 1..Len(xqueue) : xqueue[i].binded_ctx_extra # xctx

(***************************************************************************)
(* Claims about LoggingConfig.                                             *)
(***************************************************************************)
HasPrepared == last_prepared # NoPrepared
HasReturned == HasPrepared /\ ~last_prepared.raised
PreparedJsonFmt == last_prepared.config_dict["formatters"].v["json_fmt"].v

\* C21: in a prepared configuration, formatters.json_fmt.capture_extra_fields
\* is False whenever logging_module is 'picologging', and when the caller
\* asked for True the call issued the warning and did not raise; with
\* 'logging' the value is the caller's setting and no such warning is issued.
C21_CaptureForcedOffWithPicologging ==
    HasPrepared =>
        LET cfg == last_prepared.cfg
            warned == "picologging_and_capture_extra_fields" \in last_prepared.warnings
        IN  /\ HasReturned =>
                   /\ cfg.logging_module = "picologging" =>
                          /\ PreparedJsonFmt["capture_extra_fields"] = Bool(FALSE)
                          /\ warned = cfg.capture_extra_fields
                   /\ cfg.logging_module = "logging" =>
                          /\ PreparedJsonFmt["capture_extra_fields"]
                                 = Bool(cfg.capture_extra_fields)
                          /\ ~warned
            /\ (cfg.logging_module = "picologging" /\ cfg.capture_extra_fields
                    /\ last_init.args.root # EmptyDict
                    /\ DOMAIN cfg.override_formatters
                           \subseteq DOMAIN last_prepared.handlers_before)
                   => ~last_prepared.raised

\* C21's case: picologging with capture_extra_fields=True was prepared.
C21_Witness ==
    /\ HasReturned
    /\ last_prepared.cfg.logging_module = "picologging"
    /\ last_prepared.cfg.capture_extra_fields
    /\ PreparedJsonFmt["capture_extra_fields"] = Bool(FALSE)
    /\ "picologging_and_capture_extra_fields" \in last_prepared.warnings

\* C22: in a prepared configuration the formatter of a handler is the one
\* override_formatters names for it when the handler had a formatter, and
\* is otherwise as it was (a handler without a formatter gets none); and a
\* call with a non-empty override_formatters leaves the module-level
\* default handler dicts and the instance's handlers as they were.
C22_OverridePatchesCopyOfHandlers ==
    HasPrepared =>
        LET override == last_prepared.cfg.override_formatters
            was == last_prepared.handlers_before
        IN  /\ HasReturned =>
                   LET after == last_prepared.config_dict["handlers"].v
                   IN  /\ DOMAIN after = DOMAIN was
                       /\ \A name \in DOMAIN was :
                              LET hb == was[name].v
                                  ha == after[name].v
                              IN  /\ ("formatter" \in DOMAIN ha) = ("formatter" \in DOMAIN hb)
                                  /\ "formatter" \in DOMAIN hb =>
                                         ha["formatter"] =
                                             IF name \in DOMAIN override
                                             THEN Str(override[name])
                                             ELSE hb["formatter"]
                                  /\ \A key \in DOMAIN hb \ {"formatter", "queue"} :
                                         key \in DOMAIN ha /\ ha[key] = hb[key]
            /\ override # << >> =>
                   /\ last_prepared.defaults_after = last_prepared.defaults_before
                   /\ last_prepared.handlers_after = was

\* C22's case: an override naming a handler with a formatter and a handler
\* without one was applied, and the default dicts still name json_fmt.
C22_Witness ==
    /\ HasReturned
    /\ DOMAIN last_prepared.cfg.override_formatters = {"console", "queue_handler"}
    /\ LET after == last_prepared.config_dict["handlers"].v
       IN  /\ after["console"].v["formatter"] = Str("standard")
           /\ "formatter" \notin DOMAIN after["queue_handler"].v
    /\ last_prepared.defaults_after["default_handlers"]["console"].v["formatter"]
           = Str("json_fmt")
    /\ last_prepared.handlers_before["console"].v["formatter"] = Str("json_fmt")

\* The packages a construction names that are not installed.
MissingNamed(a) ==
    (IF a.logging_module = "picologging" /\ ~is_picologging_installed
     THEN {"picologging"} ELSE {})
    \cup (IF a.json_dumps_module = "orjson" /\ ~is_orjson_installed
          THEN {"orjson"} ELSE {})

\* C23: a construction that names 'picologging' or 'orjson' while that
\* package is not installed raises MissingDependencyError, whose message
\* names such a package and the command pip install <package>; no instance
\* exists afterwards and the step configures no backend; and a backend that
\* is not installed is never configured.
C23_MissingDependencyFailsAtConstruction ==
    [][/\ (nconfigs' # nconfigs /\ MissingNamed(last_init'.args) # {}) =>
              /\ last_init'.error.type = "MissingDependencyError"
              /\ last_init'.error.args[2] \in MissingNamed(last_init'.args)
              /\ last_init'.error.args[4] = "pip install "
              /\ last_init'.error.args[5] = last_init'.error.args[2]
              /\ self' = NoConfig
              /\ configured' = configured
       /\ configured' # configured =>
              /\ self # NoConfig
              /\ configured' = self.logging_module
              /\ configured' = "picologging" => is_picologging_installed]_vars

\* C23's case: a construction named a package that is not installed and
\* raised.
C23_Witness ==
    /\ nconfigs > 0
    /\ MissingNamed(last_init.args) # {}
    /\ last_init.error.type = "MissingDependencyError"
    /\ self = NoConfig

====
